---- MODULE Spec2Model ----
(***************************************************************************)
(* A model of the protocol engine of the BaseX client (basex-rs):          *)
(*   - the escaping encoder   (connection/escape_reader.rs),               *)
(*   - the connection         (connection/connection.rs),                  *)
(*   - the response decoders  (client/response.rs, query/response.rs),     *)
(*   - the query error parser (query/errors.rs).                           *)
(* Bytes are integers 0..255.  Rust slices are 0-based, TLA+ sequences are *)
(* 1-based: an index written i0 is the Rust index, i0 + 1 the TLA+ one.    *)
(* Option<Vec<u8>> is a sequence of length 0 (None) or 1 (Some(v)).        *)
(***************************************************************************)
EXTENDS Integers, Sequences, FiniteSets, TLC

\* The delimiter byte and the escape marker of the wire format.
NUL == 0
ESC == 255

\* ------------------------------------------------------------- bounds
\* Longest payload / argument source, in bytes.
MaxPayload == 2
\* Largest caller buffer handed to a read() call.
MaxBuf == 3
\* Longest source the escaping encoder relays, in bytes.
MaxSource == 4
\* Longest argument a send_arg of a connection run is given, in bytes.
MaxArg == 2
\* Most unread bytes of earlier responses at which a client or query run
\* starts another command.
MaxBacklog == 0
\* Longest byte string a read_string run finds on the stream.
MaxWire == 4
\* Most stream calls that succeed before a breaking stream fails.
MaxHealthy == 10
\* Most handles made over one stream, and most 0x00-terminated frames
\* written to it.
MaxHandles == 3
MaxFrames == 4

\* ------------------------------------------------------------ helpers
Min(a, b) == IF a < b THEN a ELSE b

SeqsUpTo(S, n) == UNION { [1..k -> S] : k \in 0..n }

None == << >>
Some(v) == << v >>
IsSome(o) == Len(o) = 1
IsNone(o) == Len(o) = 0
Unwrap(o) == o[1]

IsPrefix(s, t) == Len(s) <= Len(t) /\ SubSeq(t, 1, Len(s)) = s

\* Rust's s[a0..b0) for 0-based bounds.
Slice(s, a0, b0) == SubSeq(s, a0 + 1, b0)

\* iter().position(|b| b == c): 0-based index of the first c in s, or -1.
RECURSIVE PositionFrom(_, _, _)
PositionFrom(s, c, i0) ==
    IF i0 >= Len(s) THEN -1
    ELSE IF s[i0 + 1] = c THEN i0
    ELSE PositionFrom(s, c, i0 + 1)

Position(s, c) == PositionFrom(s, c, 0)

\* str::rfind(c): 0-based index of the last c in s, or -1.
RECURSIVE RPositionFrom(_, _, _)
RPositionFrom(s, c, i0) ==
    IF i0 < 0 THEN -1
    ELSE IF s[i0 + 1] = c THEN i0
    ELSE RPositionFrom(s, c, i0 - 1)

\* A search that takes the first occurrence; C20 tells it from rfind.
RPositionFirst(s, c) == PositionFrom(s, c, 0)

RPosition(s, c) == RPositionFrom(s, c, Len(s) - 1)

\* The wire encoding of a byte string: every 0x00 and 0xFF is preceded by
\* one 0xFF, every other byte is unchanged.
RECURSIVE Encode(_)
Encode(B) ==
    IF B = << >> THEN << >>
    ELSE (IF Head(B) \in {NUL, ESC} THEN << ESC, Head(B) >> ELSE << Head(B) >>)
         \o Encode(Tail(B))

\* String::from_utf8 on the byte strings of this model, in which a byte
\* above 0x7F is always 0x80 or 0xFF with no lead byte before it: such a
\* byte never decodes, ASCII always does.
Utf8Valid(s) == \A i \in 1..Len(s) : s[i] < 128

\* ------------------------------------------------- query error parser
IsDigit(c) == c >= 48 /\ c <= 57

\* usize::from_str: an optional '+' and at least one decimal digit.
ParsesAsUsize(s) ==
    LET d == IF s /= << >> /\ s[1] = 43 THEN Tail(s) ELSE s
    IN  d /= << >> /\ \A i \in 1..Len(d) : IsDigit(d[i])

RECURSIVE DigitsValue(_)
DigitsValue(d) ==
    IF d = << >> THEN 0
    ELSE 10 * DigitsValue(SubSeq(d, 1, Len(d) - 1)) + (d[Len(d)] - 48)

UsizeFromStr(s) == DigitsValue(IF s[1] = 43 THEN Tail(s) ELSE s)

QueryFailedPanic(raw) == [panic |-> TRUE, raw |-> raw]

\* QueryFailed::new(raw): every unwrap() and every slice out of range is a
\* panic.
QueryFailedNew(raw) ==
    LET code_index == Position(raw, 91)
    IN  IF code_index < 0 THEN QueryFailedPanic(raw) ELSE
    LET close_rel == Position(Slice(raw, code_index, Len(raw)), 93)
    IN  IF close_rel < 0 THEN QueryFailedPanic(raw) ELSE
    LET code_stop == code_index + close_rel
        line_separator == RPosition(Slice(raw, 0, code_index), 47)
    IN  IF line_separator < 0 THEN QueryFailedPanic(raw) ELSE
    LET line_start == RPosition(Slice(raw, 0, line_separator), 44)
    IN  IF line_start < 0 THEN QueryFailedPanic(raw) ELSE
    LET colon_rel == Position(Slice(raw, line_separator, Len(raw)), 58)
    IN  IF colon_rel < 0 THEN QueryFailedPanic(raw) ELSE
    LET line_stop == line_separator + colon_rel
    IN  IF line_start + 2 > line_separator THEN QueryFailedPanic(raw) ELSE
    LET line == Slice(raw, line_start + 2, line_separator)
        position == Slice(raw, line_separator + 1, line_stop)
    IN  IF ~ParsesAsUsize(line) \/ ~ParsesAsUsize(position)
        THEN QueryFailedPanic(raw)
        ELSE IF code_stop + 2 > Len(raw) \/ 11 > line_start
        THEN QueryFailedPanic(raw)
        ELSE [panic    |-> FALSE,
              raw      |-> raw,
              code     |-> Slice(raw, code_index + 1, code_stop),
              line     |-> UsizeFromStr(line),
              position |-> UsizeFromStr(position),
              message  |-> Slice(raw, code_stop + 2, Len(raw)),
              file     |-> Slice(raw, 11, line_start)]

\* ------------------------------------------------------ escaping encoder
\* An encoder that escapes 0x00 only; C2 tells it from EscapeReader.
NeedsEscapeNulOnly(b) == b = NUL

\* The bytes EscapeReader prefixes with 0xFF.
NeedsEscape(b) == b = NUL \/ b = ESC

\* n times accumulator.pop(): the accumulator is a stack, its top is last.
PopN(acc, n) == [j \in 1..n |-> acc[Len(acc) - j + 1]]

\* The backward loop of EscapeReader::read, for i in
\* (accumulator_length..escaped_size).rev(), from the 0-based index i0 down.
RECURSIVE EscapeLoop(_, _, _, _, _, _)
EscapeLoop(buf, accumulator, accumulator_length, i0, shift, next_skip) ==
    IF i0 < accumulator_length
    THEN [buf |-> buf, accumulator |-> accumulator]
    ELSE IF next_skip
    THEN EscapeLoop(buf, accumulator, accumulator_length, i0 - 1, shift, FALSE)
    ELSE
    LET b == buf[i0 - shift + 1]
        buf1 == IF i0 >= Len(buf) THEN buf ELSE [buf EXCEPT ![i0 + 1] = b]
        acc1 == IF i0 >= Len(buf) THEN Append(accumulator, b) ELSE accumulator
    IN  IF NeedsEscape(buf1[i0 - shift + 1])
        THEN EscapeLoop(IF i0 <= Len(buf) THEN [buf1 EXCEPT ![i0] = ESC]
                                          ELSE buf1,
                        IF i0 <= Len(buf) THEN acc1 ELSE Append(acc1, ESC),
                        accumulator_length, i0 - 1, shift - 1, TRUE)
        ELSE EscapeLoop(buf1, acc1, accumulator_length, i0 - 1, shift, FALSE)

\* EscapeReader::read(buf) with a buffer of L bytes, when the inner reader
\* delivers `chunk` into buf[accumulator_length..]: the accumulator
\* afterwards and the bytes returned (buf[0..n)).
EscapeReaderRead(accumulator, L, chunk) ==
    LET accumulator_length == Min(L, Len(accumulator))
        stream_length == Len(chunk)
        size == accumulator_length + stream_length
        buf0 == PopN(accumulator, accumulator_length) \o chunk
                \o [j \in 1..(L - size) |-> 0]
        escape_chars_count ==
            Cardinality({j \in (accumulator_length + 1)..size :
                            NeedsEscape(buf0[j])})
        escaped_size == size + escape_chars_count
        r == EscapeLoop(buf0,
                        SubSeq(accumulator, 1,
                               Len(accumulator) - accumulator_length),
                        accumulator_length, escaped_size - 1,
                        escape_chars_count, FALSE)
        n == Min(L, accumulator_length + stream_length + escape_chars_count)
    IN  [accumulator |-> r.accumulator, data |-> SubSeq(r.buf, 1, n)]

\* The numbers of bytes the inner reader may deliver into a buffer with
\* `room` bytes when `inner` are the bytes it still holds: none into an
\* empty buffer or at its end, at least one otherwise.
InnerDeliverable(inner, room) ==
    IF room = 0 \/ inner = << >> THEN {0} ELSE 1..Min(room, Len(inner))

\* ---------------------------------------------------- response decoders
\* The scan loop of Response::read (both shapes) over buf[0..size), from the
\* 0-based index i0 on.  position is the 0-based index of the unescaped
\* 0x00 the loop stopped at, -1 for None.  The loop's escape flag and shift
\* are locals of the call: every call starts with escape = false, shift = 0.
RECURSIVE ScanLoop(_, _, _, _)
ScanLoop(buf, i0, escape, shift) ==
    IF i0 >= Len(buf)
    THEN [buf |-> buf, shift |-> shift, position |-> -1]
    ELSE IF buf[i0 + 1] = ESC /\ ~escape
    THEN ScanLoop(buf, i0 + 1, TRUE, shift + 1)
    ELSE IF buf[i0 + 1] = NUL /\ ~escape
    THEN [buf |-> buf, shift |-> shift, position |-> i0]
    ELSE ScanLoop([buf EXCEPT ![i0 - shift + 1] = buf[i0 + 1]],
                  i0 + 1, FALSE, shift)

\* A scan that forgets the markers it dropped; C27 tells it from the scan.
ScanCountingMarkers(buf) == [ScanLoop(buf, 0, FALSE, 0) EXCEPT !.shift = 0]

Scan(buf) == ScanLoop(buf, 0, FALSE, 0)

\* What one Response::read call yields: the decoder's fields afterwards,
\* the bytes handed to the caller (buf[0..n)) and whether the call panicked.
ReadResult(self, data, panic) == [self |-> self, data |-> data, panic |-> panic]

\* client::Response::read after connection().read(buf) delivered `chunk`.
ClientResponseRead(self, chunk) ==
    LET size == Len(chunk)
        s == Scan(chunk)
        buf == s.buf
        position == s.position
    IN  IF position < 0
        THEN ReadResult(self, Slice(buf, 0, size - s.shift), FALSE)
        ELSE IF ~(size > position + 1)
        THEN ReadResult(self, Slice(buf, 0, position - s.shift), FALSE)
        ELSE
        LET length == Position(Slice(buf, position + 1, size), NUL)
            status0 == position + 1 + length + 1
        IN  IF length < 0
            THEN ReadResult([self EXCEPT !.info_prefix =
                                    Some(Slice(buf, position + 1, size))],
                            Slice(buf, 0, position - s.shift), FALSE)
            ELSE IF status0 >= size \/ buf[status0 + 1] \notin {0, 1}
            THEN ReadResult([self EXCEPT !.info_complete = TRUE], << >>, TRUE)
            ELSE ReadResult([self EXCEPT
                                !.info_complete = TRUE,
                                !.is_ok = (buf[status0 + 1] = 0),
                                !.info_prefix = Some(Slice(buf, position + 1,
                                                     position + 1 + length))],
                            Slice(buf, 0, position - s.shift), FALSE)

\* query::Response::read after connection().read(buf) delivered `chunk`.
QueryResponseRead(self, chunk) ==
    LET size == Len(chunk)
        s == Scan(chunk)
        buf == s.buf
        position == s.position
    IN  IF position < 0
        THEN ReadResult(self, Slice(buf, 0, size - s.shift), FALSE)
        ELSE IF ~(size > position + 1)
        THEN ReadResult(self, Slice(buf, 0, position - s.shift), FALSE)
        ELSE IF buf[position + 2] \notin {0, 1}
        THEN ReadResult([self EXCEPT !.result_complete = TRUE], << >>, TRUE)
        ELSE IF buf[position + 2] = 0
        THEN ReadResult([self EXCEPT !.result_complete = TRUE,
                                     !.is_ok = TRUE,
                                     !.info_complete = TRUE],
                        Slice(buf, 0, position - s.shift), FALSE)
        ELSE
        LET length == Position(Slice(buf, position + 2, size), NUL)
        IN  ReadResult([self EXCEPT
                           !.result_complete = TRUE,
                           !.is_ok = FALSE,
                           !.info_complete = (length >= 0),
                           !.info_prefix =
                               IF length >= 0
                               THEN Some(Slice(buf, position + 2,
                                               position + 2 + length))
                               ELSE Some(Slice(buf, position + 2, size))],
                       Slice(buf, 0, position - s.shift), FALSE)

\* Response::new: the decoder's fields after construction.
NewResponse == [info_prefix |-> None, info_complete |-> FALSE,
                is_ok |-> FALSE, result_complete |-> FALSE]

\* The early return of Response::read: the payload region is over.
ReadFinished(sh, self) ==
    IF sh = "plain" THEN IsSome(self.info_prefix) ELSE self.result_complete

ResponseRead(sh, self, chunk) ==
    IF sh = "plain" THEN ClientResponseRead(self, chunk)
                    ELSE QueryResponseRead(self, chunk)

\* ------------------------------------------ asynchronous response decoders
\* The scan loop of the asynchronous Response::poll_read (both shapes) over
\* buf_unparsed.filled(), from the 0-based index i0 on.  `filled` is the
\* filled part of the caller's ReadBuf: a decoded byte overwrites
\* filled[i - shift] when that index is filled and is put at the end
\* otherwise.  position is -1 for None.
\* A scan that never leaves an escape; C33 tells it from the scan loop.
RECURSIVE AsyncScanLoopStayingEscaped(_, _, _, _, _)
AsyncScanLoopStayingEscaped(unparsed, filled, i0, escape, shift) ==
    IF i0 >= Len(unparsed)
    THEN [filled |-> filled, shift |-> shift, position |-> -1]
    ELSE IF unparsed[i0 + 1] = ESC /\ ~escape
    THEN AsyncScanLoopStayingEscaped(unparsed, filled, i0 + 1, TRUE, shift + 1)
    ELSE IF unparsed[i0 + 1] = NUL /\ ~escape
    THEN [filled |-> filled, shift |-> shift, position |-> i0]
    ELSE AsyncScanLoopStayingEscaped(unparsed,
                       IF Len(filled) > i0 - shift
                       THEN [filled EXCEPT ![i0 - shift + 1] = unparsed[i0 + 1]]
                       ELSE Append(filled, unparsed[i0 + 1]),
                       i0 + 1, escape, shift)
RECURSIVE AsyncScanLoop(_, _, _, _, _)
AsyncScanLoop(unparsed, filled, i0, escape, shift) ==
    IF i0 >= Len(unparsed)
    THEN [filled |-> filled, shift |-> shift, position |-> -1]
    ELSE IF unparsed[i0 + 1] = ESC /\ ~escape
    THEN AsyncScanLoop(unparsed, filled, i0 + 1, TRUE, shift + 1)
    ELSE IF unparsed[i0 + 1] = NUL /\ ~escape
    THEN [filled |-> filled, shift |-> shift, position |-> i0]
    ELSE AsyncScanLoop(unparsed,
                       IF Len(filled) > i0 - shift
                       THEN [filled EXCEPT ![i0 - shift + 1] = unparsed[i0 + 1]]
                       ELSE Append(filled, unparsed[i0 + 1]),
                       i0 + 1, FALSE, shift)

\* What one poll_read yields: the decoder's fields afterwards, the filled
\* part of the caller's ReadBuf, whether the poll is Pending and whether
\* the call panicked.
PollResult(self, filled, pending, panic) ==
    [self |-> self, filled |-> filled, pending |-> pending, panic |-> panic]

\* asynchronous::Response::poll_read on a ReadBuf whose filled part is
\* `filled`, after the connection's poll_read was Pending or delivered
\* `chunk` behind a copy of the filled part.
AsyncClientPollRead(self, filled, pending, chunk) ==
    IF IsSome(self.info_prefix) THEN PollResult(self, filled, FALSE, FALSE)
    ELSE IF pending THEN PollResult(self, filled, TRUE, FALSE)
    ELSE
    LET unparsed == filled \o chunk
        size == Len(unparsed)
        s == AsyncScanLoop(unparsed, filled, 0, FALSE, 0)
        position == s.position
    IN  IF position < 0 \/ ~(size > position + 1)
        THEN PollResult(self, s.filled, FALSE, FALSE)
        ELSE
        LET length == Position(Slice(unparsed, position + 1, size), NUL)
            status0 == position + 1 + length + 1
        IN  IF length < 0
            THEN PollResult([self EXCEPT !.info_prefix =
                                    Some(Slice(unparsed, position + 1, size))],
                            s.filled, FALSE, FALSE)
            ELSE IF status0 >= size \/ unparsed[status0 + 1] \notin {0, 1}
            THEN PollResult([self EXCEPT !.info_complete = TRUE], << >>,
                            FALSE, TRUE)
            ELSE PollResult([self EXCEPT
                                !.info_complete = TRUE,
                                !.is_ok = (unparsed[status0 + 1] = 0),
                                !.info_prefix =
                                    Some(Slice(unparsed, position + 1,
                                               position + 1 + length))],
                            s.filled, FALSE, FALSE)

\* asynchronous::query::Response::poll_read, likewise.
AsyncQueryPollRead(self, filled, pending, chunk) ==
    IF self.result_complete THEN PollResult(self, filled, FALSE, FALSE)
    ELSE IF pending THEN PollResult(self, filled, TRUE, FALSE)
    ELSE
    LET unparsed == filled \o chunk
        size == Len(unparsed)
        s == AsyncScanLoop(unparsed, filled, 0, FALSE, 0)
        position == s.position
    IN  IF position < 0 \/ ~(size > position + 1)
        THEN PollResult(self, s.filled, FALSE, FALSE)
        ELSE IF unparsed[position + 2] \notin {0, 1}
        THEN PollResult([self EXCEPT !.result_complete = TRUE], << >>,
                        FALSE, TRUE)
        ELSE IF unparsed[position + 2] = 0
        THEN PollResult([self EXCEPT !.result_complete = TRUE,
                                     !.is_ok = TRUE,
                                     !.info_complete = TRUE],
                        s.filled, FALSE, FALSE)
        ELSE
        LET length == Position(Slice(unparsed, position + 2, size), NUL)
        IN  PollResult([self EXCEPT
                           !.result_complete = TRUE,
                           !.is_ok = FALSE,
                           !.info_complete = (length >= 0),
                           !.info_prefix =
                               IF length >= 0
                               THEN Some(Slice(unparsed, position + 2,
                                               position + 2 + length))
                               ELSE Some(Slice(unparsed, position + 2, size))],
                       s.filled, FALSE, FALSE)

AsyncPollRead(sh, self, filled, pending, chunk) ==
    IF sh = "plain" THEN AsyncClientPollRead(self, filled, pending, chunk)
                    ELSE AsyncQueryPollRead(self, filled, pending, chunk)

\* ------------------------------------------------------------ the stream
\* What Connection::read_string and Connection::is_ok find on the stream.
\* `inb` are the bytes the peer sends next, `closed` says the peer has closed
\* the stream.  read_exact blocks while a byte is missing and the peer has
\* not closed; it fails with an I/O error (UnexpectedEof) once it has.
StreamMissing(closed) == IF closed THEN [status |-> "io"] ELSE [status |-> "blocked"]

\* Connection::read_string: bytes up to the first 0x00, decoded as UTF-8.
ReadString(inb, closed) ==
    LET j == Position(inb, NUL)
    IN  IF j < 0 THEN StreamMissing(closed)
        ELSE [status |-> IF Utf8Valid(Slice(inb, 0, j)) THEN "ok" ELSE "utf8",
              value  |-> Slice(inb, 0, j),
              rest   |-> Slice(inb, j + 1, Len(inb))]

\* A status check that takes every byte but 1 for success; C6 tells it
\* from Connection::is_ok.
IsOkUnlessOne(inb, closed) ==
    IF inb = << >> THEN StreamMissing(closed)
    ELSE [status |-> "ok", value |-> (inb[1] /= 1), byte |-> inb[1],
          rest |-> Tail(inb)]

\* Connection::is_ok: one byte, true when it is 0.
IsOk(inb, closed) ==
    IF inb = << >> THEN StreamMissing(closed)
    ELSE [status |-> "ok", value |-> (inb[1] = 0), byte |-> inb[1],
          rest |-> Tail(inb)]

\* The result of a close(): how it ended, the text it carries, the bytes
\* the peer still has to send.
Closed(outcome, info, rest) == [outcome |-> outcome, info |-> info, rest |-> rest]

\* client::Response::close after its drain loop.
ClientCloseTail(self, inb, closed) ==
    IF IsNone(self.info_prefix) THEN Closed("panic", << >>, inb)
    ELSE IF self.info_complete
    THEN IF ~Utf8Valid(Unwrap(self.info_prefix)) THEN Closed("utf8", << >>, inb)
         ELSE Closed(IF self.is_ok THEN "ok" ELSE "command_failed",
                     Unwrap(self.info_prefix), inb)
    ELSE
    LET suffix == ReadString(inb, closed)
    IN  IF suffix.status = "utf8" THEN Closed("utf8", << >>, suffix.rest)
        ELSE IF suffix.status /= "ok" THEN Closed(suffix.status, << >>, << >>)
        ELSE
        LET ok == IsOk(suffix.rest, closed)
        IN  IF ok.status /= "ok" THEN Closed(ok.status, << >>, << >>)
            ELSE IF ~Utf8Valid(Unwrap(self.info_prefix))
            THEN Closed("utf8", << >>, ok.rest)
            ELSE Closed(IF ok.value THEN "ok" ELSE "command_failed",
                        Unwrap(self.info_prefix) \o suffix.value, ok.rest)

\* query::Response::close after its drain loop.
QueryCloseTail(self, inb, closed) ==
    IF ~self.result_complete THEN Closed("panic", << >>, inb)
    ELSE IF self.is_ok THEN Closed("ok", << >>, inb)
    ELSE
    LET suffix == IF self.info_complete
                  THEN [status |-> "ok", value |-> << >>, rest |-> inb]
                  ELSE ReadString(inb, closed)
        prefix == IF IsSome(self.info_prefix) THEN Unwrap(self.info_prefix)
                  ELSE << >>
    IN  IF suffix.status = "utf8" THEN Closed("utf8", << >>, suffix.rest)
        ELSE IF suffix.status /= "ok" THEN Closed(suffix.status, << >>, << >>)
        ELSE IF ~Utf8Valid(prefix) THEN Closed("utf8", << >>, suffix.rest)
        ELSE IF QueryFailedNew(prefix \o suffix.value).panic
        THEN Closed("panic", << >>, suffix.rest)
        ELSE Closed("query_failed", prefix \o suffix.value, suffix.rest)

CloseTail(sh, self, inb, closed) ==
    IF sh = "plain" THEN ClientCloseTail(self, inb, closed)
                    ELSE QueryCloseTail(self, inb, closed)

\* asynchronous::Response::close after its loop; read_string and is_ok of
\* the asynchronous Connection take the stream's bytes as the synchronous
\* ones do.
AsyncClientCloseTail(self, inb, closed) ==
    IF IsNone(self.info_prefix) THEN Closed("panic", << >>, inb)
    ELSE
    LET suffix == IF self.info_complete
                  THEN [status |-> "ok", value |-> << >>, rest |-> inb]
                  ELSE ReadString(inb, closed)
    IN  IF suffix.status = "utf8" THEN Closed("utf8", << >>, suffix.rest)
        ELSE IF suffix.status /= "ok" THEN Closed(suffix.status, << >>, << >>)
        ELSE
        LET ok == IF self.info_complete
                  THEN [status |-> "ok", value |-> self.is_ok,
                        rest |-> suffix.rest]
                  ELSE IsOk(suffix.rest, closed)
        IN  IF ok.status /= "ok" THEN Closed(ok.status, << >>, << >>)
            ELSE IF ~Utf8Valid(Unwrap(self.info_prefix))
            THEN Closed("utf8", << >>, ok.rest)
            ELSE Closed(IF ok.value THEN "ok" ELSE "command_failed",
                        Unwrap(self.info_prefix) \o suffix.value, ok.rest)

\* asynchronous::query::Response::close after its loop.
AsyncQueryCloseTail(self, inb, closed) ==
    IF ~self.result_complete THEN Closed("panic", << >>, inb)
    ELSE IF self.is_ok THEN Closed("ok", << >>, inb)
    ELSE
    LET suffix == IF self.info_complete
                  THEN [status |-> "ok", value |-> << >>, rest |-> inb]
                  ELSE ReadString(inb, closed)
        prefix == IF IsSome(self.info_prefix) THEN Unwrap(self.info_prefix)
                  ELSE << >>
    IN  IF suffix.status = "utf8" THEN Closed("utf8", << >>, suffix.rest)
        ELSE IF suffix.status /= "ok" THEN Closed(suffix.status, << >>, << >>)
        ELSE IF ~Utf8Valid(prefix) THEN Closed("utf8", << >>, suffix.rest)
        ELSE IF QueryFailedNew(prefix \o suffix.value).panic
        THEN Closed("panic", << >>, suffix.rest)
        ELSE Closed("query_failed", prefix \o suffix.value, suffix.rest)

AsyncCloseTail(sh, self, inb, closed) ==
    IF sh = "plain" THEN AsyncClientCloseTail(self, inb, closed)
                    ELSE AsyncQueryCloseTail(self, inb, closed)

\* The buffers close() drains with.
ClientCloseBuf == 40
QueryCloseBuf == 4096
CloseBuf(sh) == IF sh = "plain" THEN ClientCloseBuf ELSE QueryCloseBuf

\* Response::close as a whole: the results it may have when the stream
\* holds `inb`, one for every way the stream may cut `inb` into reads.
RECURSIVE CloseRuns(_, _, _, _)
CloseRuns(sh, self, inb, closed) ==
    IF ReadFinished(sh, self) THEN { CloseTail(sh, self, inb, closed) }
    ELSE IF inb = << >>
    THEN IF closed THEN { CloseTail(sh, self, inb, closed) }
         ELSE { Closed("blocked", << >>, inb) }
    ELSE UNION {
        LET r == ResponseRead(sh, self, SubSeq(inb, 1, k))
            rest == SubSeq(inb, k + 1, Len(inb))
        IN  IF r.panic THEN { Closed("panic", << >>, rest) }
            ELSE IF Len(r.data) > 0 THEN CloseRuns(sh, r.self, rest, closed)
            ELSE { CloseTail(sh, r.self, rest, closed) }
        : k \in 1..Min(CloseBuf(sh), Len(inb)) }

\* ------------------------------------------------------------ connection
\* io::copy(&mut EscapeReader::new(argument), &mut stream) with a copy
\* buffer of L bytes: read until a read returns 0, writing what each read
\* returned.  `source` are the bytes of the argument, which fills the buffer
\* it is given as far as it can.
RECURSIVE CopyEscaped(_, _, _)
CopyEscaped(source, acc, L) ==
    LET room == L - Min(L, Len(acc))
        k == Min(room, Len(source))
        r == EscapeReaderRead(acc, L, SubSeq(source, 1, k))
    IN  IF r.data = << >> THEN << >>
        ELSE r.data \o CopyEscaped(SubSeq(source, k + 1, Len(source)),
                                   r.accumulator, L)

\* Connection::skip_arg: what it writes.
SkipArgBytes == << NUL >>

\* A send_arg that leaves the terminator out; C3 tells it from send_arg.
SendArgUnterminated(argument, L) == CopyEscaped(argument, << >>, L)

\* Connection::send_arg: what it writes.
SendArgBytes(argument, L) == CopyEscaped(argument, << >>, L) \o SkipArgBytes

\* Connection::send_cmd: what it writes.
SendCmdBytes(code) == << code >>

\* Framing methods that exist for every state; C4 tells them from the
\* methods of impl Connection<T, Authenticated>.
CanFrameAnyState(st) == TRUE

\* The methods of impl Connection<T, Authenticated>: send_cmd, send_arg,
\* skip_arg, get_response and is_ok exist for this state only.
CanFrame(st) == st = "Authenticated"

\* The methods of impl Connection<T, Unauthenticated>: authenticate.
CanAuthenticate(st) == st = "Unauthenticated"

\* str::split(c).collect(): the parts of s between the c's.
RECURSIVE Split(_, _)
Split(s, c) ==
    LET j == Position(s, c)
    IN  IF j < 0 THEN << s >>
        ELSE << Slice(s, 0, j) >> \o Split(Slice(s, j + 1, Len(s)), c)

\* md5::compute, the digest function of the md5 crate (RFC 1321).
\* A 32-bit word is << hi, lo >>, its two 16-bit halves.
Word(hi, lo) == << hi, lo >>

\* wrapping_add of two words.
WrappingAdd(x, y) ==
    LET lo == x[2] + y[2]
    IN  Word((x[1] + y[1] + (lo \div 65536)) % 65536, lo % 65536)

RECURSIVE Pow2(_)
Pow2(n) == IF n = 0 THEN 1 ELSE 2 * Pow2(n - 1)

\* rotate_left(s) of a word, 0 < s < 32.
RotateLeft(x, s) ==
    LET y == IF s >= 16 THEN Word(x[2], x[1]) ELSE x
        r == s % 16
        p == Pow2(r)
        q == Pow2(16 - r)
    IN  Word(((y[1] * p) % 65536) + (y[2] \div q),
             ((y[2] * p) % 65536) + (y[1] \div q))

\* One bit of the four auxiliary functions of the rounds:
\* F = (x & y) | (~x & z), G = (x & z) | (y & ~z), H = x ^ y ^ z,
\* I = y ^ (x | ~z).
AuxBit(round, x, y, z) ==
    IF round = 0 THEN (IF x = 1 THEN y ELSE z)
    ELSE IF round = 1 THEN (IF z = 1 THEN x ELSE y)
    ELSE IF round = 2 THEN (x + y + z) % 2
    ELSE (y + (IF x = 1 \/ z = 0 THEN 1 ELSE 0)) % 2

\* The auxiliary function on n bits and on words.
RECURSIVE AuxBits(_, _, _, _, _)
AuxBits(round, x, y, z, n) ==
    IF n = 0 THEN 0
    ELSE 2 * AuxBits(round, x \div 2, y \div 2, z \div 2, n - 1)
         + AuxBit(round, x % 2, y % 2, z % 2)
Aux(round, x, y, z) ==
    Word(AuxBits(round, x[1], y[1], z[1], 16),
         AuxBits(round, x[2], y[2], z[2], 16))

\* The table of floor(2^32 * abs(sin(i + 1))), i = 0..63.
SineTable ==
    << << 55146, 42104 >>, << 59591, 46934 >>, << 9248, 28891 >>, << 49597, 52974 >>,
       << 62844, 4015 >>, << 18311, 50730 >>, << 43056, 17939 >>, << 64838, 38145 >>,
       << 27008, 39128 >>, << 35652, 63407 >>, << 65535, 23473 >>, << 35164, 55230 >>,
       << 27536, 4386 >>, << 64920, 29075 >>, << 42617, 17294 >>, << 18868, 2081 >>,
       << 63006, 9570 >>, << 49216, 45888 >>, << 9822, 23121 >>, << 59830, 51114 >>,
       << 54831, 4189 >>, << 580, 5203 >>, << 55457, 59009 >>, << 59347, 64456 >>,
       << 8673, 52710 >>, << 49975, 2006 >>, << 62677, 3463 >>, << 17754, 5357 >>,
       << 43491, 59653 >>, << 64751, 41976 >>, << 26479, 729 >>, << 36138, 19594 >>,
       << 65530, 14658 >>, << 34673, 63105 >>, << 28061, 24866 >>, << 64997, 14348 >>,
       << 42174, 59972 >>, << 19422, 53161 >>, << 63163, 19296 >>, << 48831, 48240 >>,
       << 10395, 32454 >>, << 60065, 10234 >>, << 54511, 12421 >>, << 1160, 7429 >>,
       << 55764, 53305 >>, << 59099, 39397 >>, << 8098, 31992 >>, << 50348, 22117 >>,
       << 62505, 8772 >>, << 17194, 65431 >>, << 43924, 9127 >>, << 64659, 41017 >>,
       << 25947, 22979 >>, << 36620, 52370 >>, << 65519, 62589 >>, << 34180, 24017 >>,
       << 28584, 32335 >>, << 65068, 59104 >>, << 41729, 17172 >>, << 19976, 4513 >>,
       << 63315, 32386 >>, << 48442, 62005 >>, << 10967, 53947 >>, << 60294, 54161 >> >>

\* The rotation amounts of the four rounds.
Rotations ==
    << << 7, 12, 17, 22 >>, << 5, 9, 14, 20 >>, << 4, 11, 16, 23 >>,
       << 6, 10, 15, 21 >> >>

\* The padded message: the bytes, 0x80, zeros up to 56 modulo 64, and the
\* length in bits as eight little-endian bytes (messages here are shorter
\* than 8192 bytes, so the length has two bytes that are not zero).
Padded(message) ==
    LET zeros == (119 - (Len(message) % 64)) % 64
        bits == 8 * Len(message)
    IN  message \o << 128 >> \o [j \in 1..zeros |-> 0]
        \o << bits % 256, (bits \div 256) % 256, (bits \div 65536) % 256,
              0, 0, 0, 0, 0 >>

\* The 16 little-endian words of the block that starts at byte `at` (0-based).
BlockWords(bytes, at) ==
    [g \in 1..16 |->
        Word(bytes[at + 4 * g - 1] + 256 * bytes[at + 4 * g],
             bytes[at + 4 * g - 3] + 256 * bytes[at + 4 * g - 2])]

\* The word of the block that step i takes.
WordIndex(i) ==
    IF i < 16 THEN i
    ELSE IF i < 32 THEN (5 * i + 1) % 16
    ELSE IF i < 48 THEN (3 * i + 5) % 16
    ELSE (7 * i) % 16

\* The new b of step i on the state << a, b, c, d >>.
StepWord(st, words, i) ==
    WrappingAdd(
        st[2],
        RotateLeft(
            WrappingAdd(
                WrappingAdd(Aux(i \div 16, st[2], st[3], st[4]), st[1]),
                WrappingAdd(SineTable[i + 1], words[WordIndex(i) + 1])),
            Rotations[(i \div 16) + 1][(i % 4) + 1]))

\* The steps i..n-1 of one block; the state is << a, b, c, d >>.  Stepped
\* goes on with the new b of a step (its test holds of every word: it has b
\* computed before the next step).
RECURSIVE Steps(_, _, _, _)
Stepped(st, words, i, n, b) ==
    IF b[1] < 65536
    THEN Steps(<< st[4], b, st[2], st[3] >>, words, i + 1, n)
    ELSE st

Steps(st, words, i, n) ==
    IF i = n THEN st ELSE Stepped(st, words, i, n, StepWord(st, words, i))

\* The four rounds of 16 steps of one block.
Rounds(st, words) ==
    Steps(Steps(Steps(Steps(st, words, 0, 16), words, 16, 32),
                words, 32, 48),
          words, 48, 64)

\* The state after a block's rounds, added to the state before.
AddState(st, r) ==
    << WrappingAdd(st[1], r[1]), WrappingAdd(st[2], r[2]),
       WrappingAdd(st[3], r[3]), WrappingAdd(st[4], r[4]) >>

\* One block.
Compress(st, words) == AddState(st, Rounds(st, words))

\* The blocks of the padded message from byte `at` on.
RECURSIVE Blocks(_, _, _)
Blocks(st, bytes, at) ==
    IF at >= Len(bytes) THEN st
    ELSE Blocks(Compress(st, BlockWords(bytes, at)), bytes, at + 64)

\* The 16 bytes of the state << a, b, c, d >>, each word little-endian.
DigestBytes(st) ==
    [j \in 1..16 |->
        IF (j - 1) % 4 = 0 THEN st[((j - 1) \div 4) + 1][2] % 256
        ELSE IF (j - 1) % 4 = 1 THEN st[((j - 1) \div 4) + 1][2] \div 256
        ELSE IF (j - 1) % 4 = 2 THEN st[((j - 1) \div 4) + 1][1] % 256
        ELSE st[((j - 1) \div 4) + 1][1] \div 256]

\* md5::compute(message): the 16 bytes of the digest (RFC 1321).
Md5Compute(message) ==
    DigestBytes(Blocks(<< Word(26437, 8961), Word(61389, 43913),
                          Word(39098, 56574), Word(4146, 21622) >>,
                       Padded(message), 0))

\* Uppercase hex digits, the {:X} format; C5 tells them from {:x}.
HexDigitUpper(n) == IF n < 10 THEN 48 + n ELSE 55 + n

\* One digit of the {:x} format.
HexDigit(n) == IF n < 10 THEN 48 + n ELSE 87 + n

\* format!("{:x}", digest): two lowercase hex digits per byte.
RECURSIVE LowerHex(_)
LowerHex(d) ==
    IF d = << >> THEN << >>
    ELSE << HexDigit(Head(d) \div 16), HexDigit(Head(d) % 16) >>
         \o LowerHex(Tail(d))

\* The messages authenticate digests for the greetings of this model, each
\* with its digest.
KnownDigests ==
    {
      \* "admin:B:admin"
      << << 97, 100, 109, 105, 110, 58, 66, 58, 97, 100, 109, 105, 110 >>,
         << 79, 201, 105, 81, 213, 153, 219, 143, 254, 84, 111, 116, 26,
            234, 132, 245 >> >>,
      \* "4fc96951d599db8ffe546f741aea84f51"
      << << 52, 102, 99, 57, 54, 57, 53, 49, 100, 53, 57, 57, 100, 98, 56,
            102, 102, 101, 53, 52, 54, 102, 55, 52, 49, 97, 101, 97, 56,
            52, 102, 53, 49 >>,
         << 50, 31, 189, 104, 234, 179, 5, 182, 69, 175, 195, 20, 180,
            151, 126, 214 >> >>,
      \* "admin:BaseX:admin"
      << << 97, 100, 109, 105, 110, 58, 66, 97, 115, 101, 88, 58, 97, 100,
            109, 105, 110 >>,
         << 48, 75, 223, 176, 56, 60, 22, 240, 112, 168, 151, 252, 30,
            178, 92, 180 >> >>,
      \* "304bdfb0383c16f070a897fc1eb25cb419501915960728"
      << << 51, 48, 52, 98, 100, 102, 98, 48, 51, 56, 51, 99, 49, 54, 102,
            48, 55, 48, 97, 56, 57, 55, 102, 99, 49, 101, 98, 50, 53, 99,
            98, 52, 49, 57, 53, 48, 49, 57, 49, 53, 57, 54, 48, 55, 50, 56 >>,
         << 175, 19, 178, 10, 240, 224, 176, 227, 81, 122, 64, 108, 66,
            98, 45, 61 >> >> }

\* md5::compute as the model applies it: the digest of a known message is
\* looked up, that of any other message computed.
Md5(message) ==
    IF \E p \in KnownDigests : p[1] = message
    THEN (CHOOSE p \in KnownDigests : p[1] = message)[2]
    ELSE Md5Compute(message)

\* An auth_string with the first digest only; C26 tells it from the digest
\* of that digest and the timestamp.
AuthStringOneDigest(user, password, server_name, timestamp) ==
    user \o << NUL >>
    \o LowerHex(Md5(user \o << 58 >> \o server_name \o << 58 >> \o password))
    \o << NUL >>

\* The auth_string of Connection::authenticate for the challenge parts.
AuthString(user, password, server_name, timestamp) ==
    LET first_digest == Md5(user \o << 58 >> \o server_name \o << 58 >>
                            \o password)
        second_digest == Md5(LowerHex(first_digest) \o timestamp)
    IN  user \o << NUL >> \o LowerHex(second_digest) \o << NUL >>

\* One entry of the log of stream operations: the method, "read" or
\* "write", the bytes moved, and the connection's state tag at that time.
Event(by, op, bytes, st) == [by |-> by, op |-> op, bytes |-> bytes, st |-> st]

\* Connection::authenticate(user, password) on a stream on which the peer
\* sends `inb`: how it ends, the stream operations it made in order, the
\* connection state it yields.
Authenticate(inb, closed, user, password) ==
    LET st == "Unauthenticated"
        g == ReadString(inb, closed)
        greeting == Event("authenticate", "read",
                          IF g.status = "io" THEN inb
                          ELSE Slice(inb, 0, Len(g.value) + 1), st)
    IN  IF g.status = "blocked" THEN [outcome |-> "blocked"]
        ELSE IF g.status /= "ok"
        THEN [outcome |-> g.status, events |-> << greeting >>,
              written |-> << >>, state |-> "Consumed",
              rest |-> IF g.status = "io" THEN << >> ELSE g.rest]
        ELSE
        LET challenge == Split(g.value, 58)
        IN  IF Len(challenge) < 2
            THEN [outcome |-> "panic", events |-> << greeting >>,
                  written |-> << >>, state |-> "Consumed", rest |-> g.rest]
            ELSE
            LET auth_string == AuthString(user, password, challenge[1],
                                          challenge[2])
                answer == Event("authenticate", "write", auth_string, st)
                control == Event("authenticate", "read",
                                 Slice(g.rest, 0, Min(1, Len(g.rest))), st)
            IN  IF g.rest = << >> /\ ~closed THEN [outcome |-> "blocked"]
                ELSE IF g.rest = << >>
                THEN [outcome |-> "io",
                      events |-> << greeting, answer, control >>,
                      written |-> auth_string, state |-> "Consumed",
                      rest |-> << >>]
                ELSE [outcome |-> IF g.rest[1] /= 0 THEN "auth" ELSE "ok",
                      events |-> << greeting, answer, control >>,
                      written |-> auth_string,
                      state |-> IF g.rest[1] /= 0 THEN "Consumed"
                                ELSE "Authenticated",
                      rest |-> Tail(g.rest)]

\* Connection::get_response on a stream on which the peer sends `inb`.
GetResponse(inb, closed) ==
    LET st == "Authenticated"
        info == ReadString(inb, closed)
        text == Event("get_response", "read",
                      IF info.status = "io" THEN inb
                      ELSE Slice(inb, 0, Len(info.value) + 1), st)
    IN  IF info.status = "blocked" THEN [outcome |-> "blocked"]
        ELSE IF info.status /= "ok"
        THEN [outcome |-> info.status, info |-> << >>,
              events |-> << text >>,
              rest |-> IF info.status = "io" THEN << >> ELSE info.rest]
        ELSE
        LET ok == IsOk(info.rest, closed)
            status == Event("get_response", "read",
                            Slice(info.rest, 0, Min(1, Len(info.rest))), st)
        IN  IF ok.status = "blocked" THEN [outcome |-> "blocked"]
            ELSE IF ok.status /= "ok"
            THEN [outcome |-> "io", info |-> << >>,
                  events |-> << text, status >>, rest |-> << >>]
            ELSE [outcome |-> IF ok.value THEN "ok" ELSE "command_failed",
                  info |-> info.value,
                  events |-> << text, status >>, rest |-> ok.rest]

\* ------------------------------------------------ client and query session
\* The texts of the client and query code, as bytes.
TRUE_TEXT == << 116, 114, 117, 101 >>
FALSE_TEXT == << 102, 97, 108, 115, 101 >>
XS_STRING == << 120, 115, 58, 115, 116, 114, 105, 110, 103 >>
XS_INT == << 120, 115, 58, 105, 110, 116 >>
XS_BOOLEAN == << 120, 115, 58, 98, 111, 111, 108, 101, 97, 110 >>
DOCUMENT_NODE ==
    << 100, 111, 99, 117, 109, 101, 110, 116, 45, 110, 111, 100, 101, 40, 41 >>
SET_QUERYINFO_TRUE ==
    << 83, 69, 84, 32, 81, 85, 69, 82, 89, 73, 78, 70, 79, 32, 116, 114, 117,
       101 >>
SET_QUERYINFO_FALSE ==
    << 83, 69, 84, 32, 81, 85, 69, 82, 89, 73, 78, 70, 79, 32, 102, 97, 108,
       115, 101 >>

\* The command codes of the standard mode (client.rs) and of the query mode
\* (query.rs).
ClientCommand == [Query |-> 0, Create |-> 8, Add |-> 9, Replace |-> 12,
                  Store |-> 13]
QueryCommand == [Close |-> 2, Bind |-> 3, Execute |-> 5, Info |-> 6,
                 Options |-> 7, Context |-> 14, Updating |-> 30]

\* What connection.send_arg(argument) writes; the size of io::copy's buffer
\* does not show in it.
Argument(argument) == SendArgBytes(argument, MaxBuf)

\* i32::to_string and bool::to_string.
RECURSIVE NatToString(_)
NatToString(n) ==
    IF n < 10 THEN << 48 + n >>
    ELSE Append(NatToString(n \div 10), 48 + (n % 10))
I32ToString(n) == IF n < 0 THEN << 45 >> \o NatToString(0 - n)
                  ELSE NatToString(n)
BoolToString(v) == IF v THEN TRUE_TEXT ELSE FALSE_TEXT

\* ToQueryArgument for &str, i32 and bool: the text write_xquery sends and
\* the type xquery_type names.  A value is [type, s, n, b].
ValueText(value) ==
    IF value.type = "str" THEN value.s
    ELSE IF value.type = "i32" THEN I32ToString(value.n)
    ELSE BoolToString(value.b)
XqueryType(value) ==
    IF value.type = "str" THEN XS_STRING
    ELSE IF value.type = "i32" THEN XS_INT
    ELSE XS_BOOLEAN
WriteXquery(value) == Argument(ValueText(value))

\* A close() that sends no id; C12 tells it from Query::close.
QueryCloseWithoutId(id) == SendCmdBytes(QueryCommand.Close)

\* What the methods of Query and of ArgumentWithOptionalValue write.
QueryCloseBytes(id) == SendCmdBytes(QueryCommand.Close) \o Argument(id)
BindBytes(id, name) ==
    SendCmdBytes(QueryCommand.Bind) \o Argument(id) \o Argument(name)
WithValueBytes(value) == WriteXquery(value) \o Argument(XqueryType(value))

\* One empty argument where without_value sends two; C16 tells them apart.
WithoutValueOneSkip == SkipArgBytes

WithoutValueBytes == SkipArgBytes \o SkipArgBytes

\* An execute() with an empty id; C13 tells it from Query::execute.
ExecuteWithoutId(id) == SendCmdBytes(QueryCommand.Execute) \o SkipArgBytes

ExecuteBytes(id) == SendCmdBytes(QueryCommand.Execute) \o Argument(id)
OptionsBytes(id) == SendCmdBytes(QueryCommand.Options) \o Argument(id)

\* info() sent under the code of options(); C14 tells the two apart.
InfoWithOptionsCode(id) == SendCmdBytes(QueryCommand.Options) \o Argument(id)

InfoBytes(id) == SendCmdBytes(QueryCommand.Info) \o Argument(id)

\* A context() without its type token; C18 tells it from context().
ContextWithoutType(id, value) ==
    SendCmdBytes(QueryCommand.Context) \o Argument(id) \o Argument(value)

ContextBytes(id, value) ==
    SendCmdBytes(QueryCommand.Context) \o Argument(id) \o Argument(value)
    \o Argument(DOCUMENT_NODE)
UpdatingBytes(id) == SendCmdBytes(QueryCommand.Updating) \o Argument(id)

\* An updating() that takes every other text for "false"; C19 tells it
\* from Query::updating.
UpdatingLenient(g) ==
    IF g.outcome /= "ok" THEN [outcome |-> g.outcome, info |-> g.info]
    ELSE IF g.info = TRUE_TEXT THEN [outcome |-> "ok", info |-> TRUE_TEXT]
    ELSE [outcome |-> "ok", info |-> FALSE_TEXT]

\* Query::updating over the result of its get_response: "true" and "false"
\* are the two texts it takes.
UpdatingResult(g) ==
    IF g.outcome /= "ok" THEN [outcome |-> g.outcome, info |-> g.info]
    ELSE IF g.info = TRUE_TEXT THEN [outcome |-> "ok", info |-> TRUE_TEXT]
    ELSE IF g.info = FALSE_TEXT THEN [outcome |-> "ok", info |-> FALSE_TEXT]
    ELSE [outcome |-> "panic", info |-> << >>]

\* What the methods of Client, CommandWithOptionalInput and
\* QueryWithOptionalInfo write.
ClientExecuteBytes(command) == Argument(command)

\* A create() without its code byte; C15 tells it from Client::create.
CreateWithoutCode(name) == Argument(name)

CreateBytes(name) == SendCmdBytes(ClientCommand.Create) \o Argument(name)
WithInputBytes(input) == Argument(input)

\* Two empty arguments where without_input sends one; C17 tells them apart.
WithoutInputTwoSkips == SkipArgBytes \o SkipArgBytes

WithoutInputBytes == SkipArgBytes
ReplaceBytes(path, input) ==
    SendCmdBytes(ClientCommand.Replace) \o Argument(path) \o Argument(input)
StoreBytes(path, input) ==
    SendCmdBytes(ClientCommand.Store) \o Argument(path) \o Argument(input)
AddBytes(path, input) ==
    SendCmdBytes(ClientCommand.Add) \o Argument(path) \o Argument(input)
NewQueryBytes(query) == SendCmdBytes(ClientCommand.Query) \o Argument(query)
\* A session setup that always asks for the query info; C34 tells it from
\* with_info / without_info.
SetQueryInfoAlwaysTrue(hasInfo) == ClientExecuteBytes(SET_QUERYINFO_TRUE)

SetQueryInfoBytes(hasInfo) ==
    ClientExecuteBytes(IF hasInfo THEN SET_QUERYINFO_TRUE
                       ELSE SET_QUERYINFO_FALSE)

\* ------------------------------------------------------------- the state
VARIABLES
    \* the stream
    inbound,      \* bytes of the peer not yet read, in order
    peerClosed,   \* the peer has closed the stream: reads return 0 bytes
    truncated,    \* the peer closed before it had sent all of `inbound`
    \* a response decoder (client::Response or query::Response)
    shape,        \* "plain" (client::Response) or "query" (query::Response)
    sent,         \* the response the peer sends: payload B, text, status byte
    response,     \* the decoder's fields: info_prefix, info_complete, is_ok,
                  \* result_complete
    out,          \* the bytes returned so far by the decoder's read() calls
    pc,           \* "open", "draining" (in close's loop), "tail", "done"
    closeCalled,  \* close() has been called on the decoder
    outcome,      \* how the operation ended
    outInfo,      \* the text the outcome carries
    \* an EscapeReader over a source
    origin,       \* the bytes of the source
    inner,        \* the bytes the inner reader still holds
    accumulator,  \* EscapeReader.accumulator
    escaped,      \* the bytes returned so far by EscapeReader::read
    carried,      \* how many bytes have gone through the accumulator
    encDone,      \* a read has returned 0
    \* a connection
    state,        \* its type tag: "Unauthenticated", "Authenticated", or
                  \* "Consumed" once a failed authenticate has taken it
    control,      \* the control byte authenticate read, if it read one
    written,      \* the bytes the last method wrote to the stream
    events,       \* the stream operations the last method made, in order
    last,         \* the last method completed: its name, outcome and text
    reply,        \* the response frame the peer sent last: info and status
    \* a client and its query sessions
    holder,       \* what the caller holds: "client", "command" (after
                  \* create), "query", "argument" (after bind), "response"
                  \* (after query.execute), "output" (after client.execute),
                  \* or "none" once the handle is gone
    id,           \* Query.id of the query held, if one is held
    hasInfo,      \* the query held is a Query<T, WithInfo>
    issued,       \* the ids the server has handed out
    retired,      \* the ids of the queries that Query::close was called on
    \* a query error
    failure,      \* the error text handed to QueryFailed::new, the parts it
                  \* was put together from, and the QueryFailed made of it
    \* a stream that breaks
    healthy,      \* how many more calls of the stream succeed before every
                  \* call fails, if the stream is one that breaks
    \* the handles of one stream
    handles,      \* the type tag of every Connection made over the stream,
                  \* in the order they were made
    channel,      \* the bytes written to the stream so far, by all handles
    \* the callers of a client and its clone
    callers,      \* of every caller: the stream calls its command has still
                  \* to make, the bytes it has read, the commands it has done
    exclusive,    \* the callers take turns: a command is started only when
                  \* no other caller is within one
    answered      \* how many command frames the server has answered

streamVars == << inbound, peerClosed, truncated >>
respVars == << shape, sent, response, out, pc, closeCalled, outcome, outInfo >>
encVars == << origin, inner, accumulator, escaped, carried, encDone >>
connVars == << state, control, written, events, last, reply >>
sessVars == << holder, id, hasInfo, issued, retired >>
errVars == << failure >>
failVars == << healthy >>
cloneVars == << handles, channel, callers, exclusive, answered >>
vars ==
    << streamVars, respVars, encVars, connVars, sessVars, errVars,
       failVars, cloneVars >>

\* The parts of the state a run does not use.
NoStream == inbound = << >> /\ peerClosed = FALSE /\ truncated = FALSE
NoResponse ==
    /\ shape = "plain"
    /\ sent = [B |-> << >>, text |-> << >>, status |-> 0]
    /\ response = [info_prefix |-> << >>, info_complete |-> FALSE,
                   is_ok |-> FALSE, result_complete |-> FALSE]
    /\ out = << >>
    /\ pc = "idle"
    /\ closeCalled = FALSE
    /\ outcome = "none"
    /\ outInfo = << >>
NoEncoder ==
    /\ origin = << >>
    /\ inner = << >>
    /\ accumulator = << >>
    /\ escaped = << >>
    /\ carried = 0
    /\ encDone = FALSE
\* A completed method: its name, how it ended, the text it returned, and
\* for send_arg the bytes of its argument.
Call(op, how, info, argument) ==
    [op |-> op, outcome |-> how, info |-> info, argument |-> argument]
NoCall == Call("none", "none", << >>, << >>)
NoReply == [info |-> << >>, status |-> 0]
NoConnection ==
    /\ state = "Authenticated"
    /\ control = Some(0)
    /\ written = << >>
    /\ events = << >>
    /\ last = NoCall
    /\ reply = NoReply
NoSession ==
    /\ holder = "none"
    /\ id = None
    /\ hasInfo = FALSE
    /\ issued = {}
    /\ retired = {}

NoFailure == failure = None
NoBreak == healthy = None
NoCallers == callers = << >> /\ exclusive = FALSE /\ answered = 0
NoClones == handles = << >> /\ channel = << >> /\ NoCallers

\* ------------------------------------------- the response decoders' runs
Shapes == {"plain", "query"}
PayloadBytes == {NUL, 1, ESC}
StatusBytes == {0, 1, 2}

\* "msg" and "Stopped at ., 1/1: [X] m"
Msg == << 109, 115, 103 >>
Stopped == << 83, 116, 111, 112, 112, 101, 100, 32, 97, 116, 32, 46, 44, 32,
              49, 47, 49, 58, 32, 91, 88, 93, 32, 109 >>
Texts == { << >>, Msg, Stopped }

\* The bytes of one response, as the server sends them:
\*   plain: payload, 0x00, info, 0x00, status
\*   query: payload, 0x00, status, and after a nonzero status: error, 0x00
Wire(sh, r) ==
    Encode(r.B) \o << NUL >> \o
    (IF sh = "plain" THEN Encode(r.text) \o << NUL, r.status >>
     ELSE IF r.status = 0 THEN << 0 >>
     ELSE << r.status >> \o Encode(r.text) \o << NUL >>)

RespInit ==
    /\ shape \in Shapes
    /\ sent \in [B : SeqsUpTo(PayloadBytes, MaxPayload), text : Texts,
                 status : StatusBytes]
    /\ inbound = Wire(shape, sent)
    /\ peerClosed = FALSE
    /\ truncated = FALSE
    /\ response = NewResponse
    /\ out = << >>
    /\ pc = "open"
    /\ closeCalled = FALSE
    /\ outcome = "none"
    /\ outInfo = << >>
    /\ NoEncoder
    /\ NoConnection
    /\ NoSession
    /\ NoFailure
    /\ NoBreak
    /\ NoClones

\* A read that takes a byte of the stream whatever the buffer; C32 tells it
\* from Connection::read.
DeliverableAtLeastOne(L) ==
    IF inbound /= << >> THEN 1..Len(inbound)
    ELSE IF peerClosed THEN {0}
    ELSE {}

\* Connection::read(buf) with a buffer of L bytes: the numbers of bytes the
\* stream may deliver.  An empty buffer reads nothing; a stream with nothing
\* to deliver blocks until the peer closes, then yields 0.
Deliverable(L) ==
    IF L = 0 THEN {0}
    ELSE IF inbound /= << >> THEN 1..Min(L, Len(inbound))
    ELSE IF peerClosed THEN {0}
    ELSE {}

Drop(s, k) == SubSeq(s, k + 1, Len(s))

\* One Response::read on the stream delivering k bytes; the caller goes on
\* at `some` when the call returns bytes and at `zero` when it returns 0.
ReadStep(k, closing, some, zero) ==
    LET r == ResponseRead(shape, response, SubSeq(inbound, 1, k))
    IN  /\ inbound' = Drop(inbound, k)
        /\ response' = r.self
        /\ out' = out \o r.data
        /\ pc' = IF r.panic THEN "done"
                 ELSE IF Len(r.data) > 0 THEN some ELSE zero
        /\ outcome' = IF r.panic THEN "panic" ELSE outcome
        /\ closeCalled' = closing
        /\ UNCHANGED << peerClosed, truncated, shape, sent, outInfo >>

\* The caller reads the payload: response.read(buf) with a buffer of L bytes.
Read ==
    /\ pc = "open"
    /\ \E L \in 0..MaxBuf :
         IF ReadFinished(shape, response)
         THEN UNCHANGED << streamVars, respVars >>
         ELSE \E k \in Deliverable(L) : ReadStep(k, FALSE, "open", "open")
    /\ UNCHANGED << encVars, errVars, failVars, cloneVars, connVars, sessVars >>

\* One turn of the drain loop of Response::close:
\*   while <payload not finished> && self.read(&mut buf)? > 0 {}
CloseDrain ==
    /\ pc \in {"open", "draining"}
    /\ IF ReadFinished(shape, response)
       THEN /\ pc' = "tail"
            /\ closeCalled' = TRUE
            /\ UNCHANGED << streamVars, shape, sent, response, out, outcome,
                            outInfo >>
       ELSE \E k \in Deliverable(CloseBuf(shape)) :
                ReadStep(k, TRUE, "draining", "tail")
    /\ UNCHANGED << encVars, errVars, failVars, cloneVars, connVars, sessVars >>

\* The rest of Response::close, after the loop.
CloseFinish ==
    /\ pc = "tail"
    /\ LET c == CloseTail(shape, response, inbound, peerClosed)
       IN  /\ c.outcome /= "blocked"
           /\ inbound' = c.rest
           /\ outcome' = c.outcome
           /\ outInfo' = c.info
           /\ pc' = "done"
    /\ UNCHANGED << peerClosed, truncated, shape, sent, response, out,
                    closeCalled >>
    /\ UNCHANGED << encVars, errVars, failVars, cloneVars, connVars, sessVars >>

\* The peer closes the stream; what it had not sent yet never arrives.
StreamEnds ==
    /\ ~peerClosed
    /\ pc /= "done"
    /\ peerClosed' = TRUE
    /\ truncated' = (inbound /= << >>)
    /\ inbound' = << >>
    /\ UNCHANGED << respVars, encVars, errVars, failVars, cloneVars, connVars, sessVars >>

RespNext == Read \/ CloseDrain \/ CloseFinish \/ StreamEnds

SpecResponse == RespInit /\ [][RespNext]_vars

\* ------------------------------------------- reads with their buffers
\* The runs of a decoder over a well-formed response in which the length of
\* the buffer of the caller's last read is kept.
BufferInit ==
    /\ shape \in Shapes
    /\ sent \in [B : SeqsUpTo(PayloadBytes, MaxPayload), text : { << >>, Msg },
                 status : { 0, 1 }]
    /\ inbound = Wire(shape, sent)
    /\ peerClosed = FALSE
    /\ truncated = FALSE
    /\ response = NewResponse
    /\ out = << >>
    /\ pc = "open"
    /\ closeCalled = FALSE
    /\ outcome = "none"
    /\ outInfo = << >>
    /\ NoEncoder
    /\ NoConnection
    /\ NoSession
    /\ NoFailure
    /\ NoBreak
    /\ NoClones

\* response.read(buf) with a buffer of L bytes, L = 0 included.
ReadInto ==
    /\ pc = "open"
    /\ \E L \in 0..MaxBuf :
         /\ IF ReadFinished(shape, response)
            THEN UNCHANGED << streamVars, respVars >>
            ELSE \E k \in Deliverable(L) : ReadStep(k, FALSE, "open", "open")
         /\ last' = Call("read", IF outcome' = "panic" THEN "panic" ELSE "ok",
                         << >>, << L >>)
    /\ UNCHANGED << state, control, written, events, reply, encVars, errVars,
                    failVars, cloneVars, sessVars >>

BufferNext == ReadInto \/ CloseDrain \/ CloseFinish

SpecBuffers == BufferInit /\ [][BufferNext]_vars

\* ------------------------------------- the asynchronous decoder's runs
\* The runs of the asynchronous decoders over the responses of a peer that
\* sends an info or error text and any status byte.
AsyncRespInit ==
    /\ shape \in Shapes
    /\ sent \in [B : SeqsUpTo(PayloadBytes, MaxPayload), text : { << >>, Msg },
                 status : StatusBytes]
    /\ inbound = Wire(shape, sent)
    /\ peerClosed = FALSE
    /\ truncated = FALSE
    /\ response = NewResponse
    /\ out = << >>
    /\ pc = "open"
    /\ closeCalled = FALSE
    /\ outcome = "none"
    /\ outInfo = << >>
    /\ NoEncoder
    /\ NoConnection
    /\ NoSession
    /\ NoFailure
    /\ NoBreak
    /\ NoClones

Pending == -1

\* The asynchronous Connection::poll_read on a ReadBuf with room for L
\* bytes: Pending, or the number of bytes the stream delivers.  A ReadBuf
\* without capacity is Ready with nothing; a stream may be Pending whenever
\* it is polled and is so while it has nothing to deliver and is open.
AsyncPolls(L) ==
    IF L = 0 THEN {0}
    ELSE IF inbound /= << >> THEN { Pending } \cup 1..Min(L, Len(inbound))
    ELSE IF peerClosed THEN {0}
    ELSE { Pending }

\* The n-th Pending poll of a decoder, as the task sees it.
PendingPoll(n) == Call("poll_read", "pending", << >>, << n >>)

\* One read(buf).await on the response: a poll_read on a ReadBuf with
\* nothing filled, which was Pending (p = Pending) or had p bytes delivered.
AsyncReadStep(p, closing, some, zero) ==
    LET r == AsyncPollRead(shape, response, << >>, p = Pending,
                           SubSeq(inbound, 1, p))
    IN  /\ inbound' = IF p = Pending THEN inbound ELSE Drop(inbound, p)
        /\ response' = r.self
        /\ out' = out \o r.filled
        /\ pc' = IF r.panic THEN "done"
                 ELSE IF r.pending THEN (IF closing THEN "draining" ELSE pc)
                 ELSE IF Len(r.filled) > 0 THEN some ELSE zero
        /\ outcome' = IF r.panic THEN "panic" ELSE outcome
        /\ closeCalled' = closing
        /\ last' = IF r.pending
                   THEN PendingPoll(IF last = PendingPoll(0) THEN 1 ELSE 0)
                   ELSE last
        /\ UNCHANGED << peerClosed, truncated, shape, sent, outInfo >>

\* The task reads the payload: response.read(buf).await with a buffer of L
\* bytes.
AsyncRead ==
    /\ pc = "open"
    /\ \E L \in 0..MaxBuf :
         IF ReadFinished(shape, response)
         THEN UNCHANGED << streamVars, respVars, last >>
         ELSE \E p \in AsyncPolls(L) : AsyncReadStep(p, FALSE, "open", "open")
    /\ UNCHANGED << state, control, written, events, reply, encVars, errVars,
                    failVars, cloneVars, sessVars >>

\* One turn of the loop of the asynchronous Response::close, or one Pending
\* poll within it.
AsyncCloseDrain ==
    /\ pc \in {"open", "draining"}
    /\ IF ReadFinished(shape, response)
       THEN /\ pc' = "tail"
            /\ closeCalled' = TRUE
            /\ UNCHANGED << streamVars, shape, sent, response, out, outcome,
                            outInfo, last >>
       ELSE \E p \in AsyncPolls(CloseBuf(shape)) :
                AsyncReadStep(p, TRUE, "draining", "tail")
    /\ UNCHANGED << state, control, written, events, reply, encVars, errVars,
                    failVars, cloneVars, sessVars >>

\* The rest of the asynchronous Response::close, after the loop.
AsyncCloseFinish ==
    /\ pc = "tail"
    /\ LET c == AsyncCloseTail(shape, response, inbound, peerClosed)
       IN  /\ c.outcome /= "blocked"
           /\ inbound' = c.rest
           /\ outcome' = c.outcome
           /\ outInfo' = c.info
           /\ pc' = "done"
    /\ UNCHANGED << peerClosed, truncated, shape, sent, response, out,
                    closeCalled >>
    /\ UNCHANGED << encVars, errVars, failVars, cloneVars, connVars, sessVars >>

AsyncRespNext == AsyncRead \/ AsyncCloseDrain \/ AsyncCloseFinish \/ StreamEnds

SpecAsyncResponse == AsyncRespInit /\ [][AsyncRespNext]_vars

\* ------------------------------------------------ the encoder's runs
SourceBytes == {NUL, 1, ESC}

EncInit ==
    /\ origin \in SeqsUpTo(SourceBytes, MaxSource)
    /\ inner = origin
    /\ accumulator = << >>
    /\ escaped = << >>
    /\ carried = 0
    /\ encDone = FALSE
    /\ NoStream
    /\ NoResponse
    /\ NoConnection
    /\ NoSession
    /\ NoFailure
    /\ NoBreak
    /\ NoClones

\* One EscapeReader::read(buf) with a non-empty buffer of L bytes; the
\* caller (io::copy, read_to_end) stops at the first read that returns 0.
EscapeRead ==
    /\ ~encDone
    /\ \E L \in 1..MaxBuf :
         \E k \in InnerDeliverable(inner, L - Min(L, Len(accumulator))) :
            LET r == EscapeReaderRead(accumulator, L, SubSeq(inner, 1, k))
            IN  /\ inner' = SubSeq(inner, k + 1, Len(inner))
                /\ accumulator' = r.accumulator
                /\ escaped' = escaped \o r.data
                /\ carried' = carried + Len(r.accumulator)
                /\ encDone' = (Len(r.data) = 0)
    /\ UNCHANGED << origin, streamVars, respVars, connVars, sessVars,
                    errVars, failVars, cloneVars >>

EncNext == EscapeRead

SpecEncode == EncInit /\ [][EncNext]_vars

\* --------------------------------------------------- the connection's runs

\* "admin" and "admin"
User == << 97, 100, 109, 105, 110 >>
Password == << 97, 100, 109, 105, 110 >>
\* "BaseX:19501915960728"
BASEX_GREETING ==
    << 66, 97, 115, 101, 88, 58, 49, 57, 53, 48, 49, 57, 49, 53, 57, 54, 48,
       55, 50, 56 >>
\* The server's greetings: "B:1", "B:1:2", "B", which has no timestamp, and
\* the one of a BaseX server.
Greetings ==
    { << 66, 58, 49 >>, << 66, 58, 49, 58, 50 >>, << 66 >>, BASEX_GREETING }
\* Command::Query and Command::Create.
Codes == { 0, 8 }
\* The info texts of the server's frames: "", "msg", and a byte that is not
\* UTF-8.
Infos == { << >>, Msg, << 128 >> }

ConnInit ==
    /\ state = "Unauthenticated"
    /\ \E g \in Greetings, c \in StatusBytes : inbound = g \o << NUL, c >>
    /\ peerClosed = FALSE
    /\ truncated = FALSE
    /\ control = None
    /\ written = << >>
    /\ events = << >>
    /\ last = NoCall
    /\ reply = NoReply
    /\ NoResponse
    /\ NoEncoder
    /\ NoSession
    /\ NoFailure
    /\ NoBreak
    /\ NoClones

\* connection.authenticate(user, password)
DoAuthenticate ==
    /\ CanAuthenticate(state)
    /\ LET a == Authenticate(inbound, peerClosed, User, Password)
       IN  /\ a.outcome /= "blocked"
           /\ state' = a.state
           /\ inbound' = a.rest
           /\ written' = a.written
           /\ events' = a.events
           /\ control' = IF a.outcome \in { "ok", "auth" }
                         THEN Some(a.events[3].bytes[1]) ELSE None
           /\ last' = Call("authenticate", a.outcome, << >>, << >>)
    /\ UNCHANGED << peerClosed, truncated, reply, respVars, encVars, errVars, failVars, cloneVars,
                    sessVars >>

\* One write-only method: the bytes go to the stream.
Write(by, bytes, argument) ==
    /\ written' = bytes
    /\ events' = << Event(by, "write", bytes, state) >>
    /\ last' = Call(by, "ok", << >>, argument)
    /\ UNCHANGED << state, control, reply, streamVars, respVars, encVars, errVars, failVars, cloneVars,
                    sessVars >>

\* connection.send_cmd(code)
SendCmd ==
    /\ CanFrame(state)
    /\ \E code \in Codes : Write("send_cmd", SendCmdBytes(code), << >>)

\* connection.send_arg(argument), copying through a buffer of L bytes.
SendArg ==
    /\ CanFrame(state)
    /\ \E argument \in SeqsUpTo(SourceBytes, MaxArg), L \in 1..MaxBuf :
          Write("send_arg", SendArgBytes(argument, L), argument)

\* connection.skip_arg()
SkipArg ==
    /\ CanFrame(state)
    /\ Write("skip_arg", SkipArgBytes, << >>)

\* connection.get_response()
DoGetResponse ==
    /\ CanFrame(state)
    /\ LET g == GetResponse(inbound, peerClosed)
       IN  /\ g.outcome /= "blocked"
           /\ inbound' = g.rest
           /\ written' = << >>
           /\ events' = g.events
           /\ last' = Call("get_response", g.outcome, g.info, << >>)
    /\ UNCHANGED << state, control, reply, peerClosed, truncated, respVars,
                    encVars, errVars, failVars, cloneVars, sessVars >>

\* The server answers what was sent with an info text, 0x00 and a status
\* byte.
ServerReplies ==
    /\ state = "Authenticated"
    /\ ~peerClosed
    /\ inbound = << >>
    /\ last.op \in { "send_cmd", "send_arg", "skip_arg" }
    /\ \E info \in Infos, status \in StatusBytes :
          /\ reply' = [info |-> info, status |-> status]
          /\ inbound' = info \o << NUL, status >>
    /\ UNCHANGED << peerClosed, truncated, state, control, written, events,
                    last, respVars, encVars, errVars, failVars, cloneVars, sessVars >>

\* The peer closes the stream after any part of what it had to send.
PeerCloses ==
    /\ ~peerClosed
    /\ state /= "Consumed"
    /\ \E n \in 0..Len(inbound) :
          /\ inbound' = SubSeq(inbound, 1, n)
          /\ truncated' = (n < Len(inbound))
    /\ peerClosed' = TRUE
    /\ UNCHANGED << connVars, respVars, encVars, errVars, failVars, cloneVars, sessVars >>

ConnNext ==
    \/ DoAuthenticate
    \/ SendCmd
    \/ SendArg
    \/ SkipArg
    \/ DoGetResponse
    \/ ServerReplies
    \/ PeerCloses

SpecConnection == ConnInit /\ [][ConnNext]_vars

\* ------------------------------------------- the client's and query's runs
\* The ids the server hands out, "1" and "2"; it never hands one out twice.
Ids == { << 49 >>, << 50 >> }
\* "foo"
Names == { << 102, 111, 111 >> }
StrValue(s) == [type |-> "str", s |-> s, n |-> 0, b |-> FALSE]
I32Value(n) == [type |-> "i32", s |-> << >>, n |-> n, b |-> FALSE]
BoolValue(b) == [type |-> "bool", s |-> << >>, n |-> 0, b |-> b]
\* "a", "", 123, -5, true, false
Values == { StrValue(<< 97 >>), StrValue(<< >>), I32Value(123), I32Value(-5),
            BoolValue(TRUE), BoolValue(FALSE) }
\* Context values, inputs of create / add / replace / store.
Resources == { << >>, << NUL >>, << 1, ESC >> }
\* "X"
Paths == { << 88 >> }
\* The database names of create: "X" and the one-character string U+0000.
DatabaseNames == { << 88 >>, << NUL >> }
\* The frames the server answers a command with: info, status.
Replies == { [info |-> << >>, status |-> 0],
             [info |-> TRUE_TEXT, status |-> 0],
             [info |-> FALSE_TEXT, status |-> 0],
             [info |-> << 116 >>, status |-> 0],
             [info |-> Msg, status |-> 1] }
ReplyFrame(r) == r.info \o << NUL, r.status >>
\* The responses the server answers an execute with.
QueryResults == { [B |-> << >>, text |-> << >>, status |-> 0],
                  [B |-> << 1 >>, text |-> << >>, status |-> 0],
                  [B |-> << >>, text |-> Stopped, status |-> 1] }
PlainResults == { [B |-> << >>, text |-> << >>, status |-> 0],
                  [B |-> << 1 >>, text |-> Msg, status |-> 0],
                  [B |-> << >>, text |-> Msg, status |-> 1] }

SessInit ==
    /\ holder = "client"
    /\ id = None
    /\ hasInfo = FALSE
    /\ issued = {}
    /\ retired = {}
    /\ NoStream
    /\ NoResponse
    /\ NoEncoder
    /\ NoConnection
    /\ NoFailure
    /\ NoBreak
    /\ NoClones

\* A command is started while at most MaxBacklog unread bytes of earlier
\* responses are left on the stream.
Ready == Len(inbound) <= MaxBacklog

\* What the server has sent when the caller reads the response to what it
\* wrote: the frame, after what was left unread; nothing once it has closed.
Arrived(frame) == IF peerClosed THEN inbound ELSE inbound \o frame

\* The part shared by the methods that write `bytes` and end with
\* connection.get_response(): `then` is what the caller holds afterwards,
\* given how get_response ended.
Exchange(op, bytes, argument) ==
    \E r \in IF peerClosed THEN { reply } ELSE Replies :
        LET g == GetResponse(Arrived(ReplyFrame(r)), peerClosed)
        IN  /\ g.outcome /= "blocked"
            /\ written' = bytes
            /\ last' = Call(op, g.outcome, g.info, argument)
            /\ reply' = r
            /\ inbound' = g.rest
            /\ UNCHANGED << peerClosed, truncated, state, control, events,
                            respVars, encVars, errVars, failVars, cloneVars >>

\* client.query(query).with_info() / .without_info(): execute
\* "SET QUERYINFO ..." and close its response, then send the query and read
\* its id.
NewQuery ==
    /\ holder = "client"
    /\ Ready
    /\ \E info \in BOOLEAN, text \in Paths, r1 \in PlainResults,
          r2 \in { [info |-> i, status |-> 0] : i \in Ids \ issued } \cup
                 { [info |-> Msg, status |-> 1] } :
        \E c \in CloseRuns("plain", NewResponse,
                           Arrived(Wire("plain", r1)), peerClosed) :
            LET g == GetResponse(IF peerClosed THEN c.rest
                                 ELSE c.rest \o ReplyFrame(r2), peerClosed)
                made == c.outcome = "ok" /\ g.outcome = "ok"
            IN  /\ c.outcome /= "blocked"
                /\ c.outcome = "ok" => g.outcome /= "blocked"
                /\ written' = SetQueryInfoBytes(info) \o
                              (IF c.outcome = "ok" THEN NewQueryBytes(text)
                               ELSE << >>)
                /\ last' = IF c.outcome = "ok"
                           THEN Call("new_query", g.outcome, g.info,
                                     << text >>)
                           ELSE Call("new_query", c.outcome, c.info,
                                     << text >>)
                /\ reply' = IF c.outcome = "ok" /\ ~peerClosed THEN r2
                            ELSE reply
                /\ inbound' = IF c.outcome = "ok" THEN g.rest ELSE c.rest
                /\ holder' = IF made THEN "query" ELSE "none"
                /\ id' = IF made THEN Some(g.info) ELSE None
                /\ hasInfo' = (made /\ info)
                /\ issued' = IF c.outcome = "ok" /\ ~peerClosed
                             THEN issued \cup ({ r2.info } \cap Ids)
                             ELSE issued
    /\ UNCHANGED << retired, peerClosed, truncated, state, control, events,
                    respVars, encVars, errVars, failVars, cloneVars >>

\* query.bind(name)
Bind ==
    /\ holder = "query"
    /\ Ready
    /\ \E name \in Names :
        /\ written' = BindBytes(Unwrap(id), name)
        /\ last' = Call("bind", "ok", << >>, << name >>)
    /\ holder' = "argument"
    /\ UNCHANGED << id, hasInfo, issued, retired, reply, state, control,
                    events, streamVars, respVars, encVars, errVars, failVars, cloneVars >>

\* argument.with_value(value)
WithValue ==
    /\ holder = "argument"
    /\ \E value \in Values :
        Exchange("with_value", written \o WithValueBytes(value),
                 << last.argument[1], value >>)
    /\ holder' = "query"
    /\ UNCHANGED << id, hasInfo, issued, retired >>

\* argument.without_value()
WithoutValue ==
    /\ holder = "argument"
    /\ Exchange("without_value", written \o WithoutValueBytes,
                << last.argument[1] >>)
    /\ holder' = "query"
    /\ UNCHANGED << id, hasInfo, issued, retired >>

\* query.context(value)
Context ==
    /\ holder = "query"
    /\ Ready
    /\ \E value \in Resources :
        Exchange("context", ContextBytes(Unwrap(id), value), << value >>)
    /\ UNCHANGED sessVars

\* query.options()
Options ==
    /\ holder = "query"
    /\ Ready
    /\ Exchange("options", OptionsBytes(Unwrap(id)), << >>)
    /\ UNCHANGED sessVars

\* query.info(), a method of Query<T, WithInfo>
Info ==
    /\ holder = "query"
    /\ hasInfo
    /\ Ready
    /\ Exchange("info", InfoBytes(Unwrap(id)), << >>)
    /\ UNCHANGED sessVars

\* query.updating()
Updating ==
    /\ holder = "query"
    /\ Ready
    /\ \E r \in IF peerClosed THEN { reply } ELSE Replies :
        LET g == GetResponse(Arrived(ReplyFrame(r)), peerClosed)
            u == UpdatingResult(g)
        IN  /\ g.outcome /= "blocked"
            /\ written' = UpdatingBytes(Unwrap(id))
            /\ last' = Call("updating", u.outcome, u.info, << >>)
            /\ reply' = r
            /\ inbound' = g.rest
            /\ holder' = IF u.outcome = "panic" THEN "none" ELSE holder
            /\ id' = IF u.outcome = "panic" THEN None ELSE id
    /\ UNCHANGED << hasInfo, issued, retired, peerClosed, truncated, state,
                    control, events, respVars, encVars, errVars, failVars, cloneVars >>

\* query.execute(): the query goes into the Response; the server sends the
\* result.
Execute ==
    /\ holder = "query"
    /\ Ready
    /\ written' = ExecuteBytes(Unwrap(id))
    /\ last' = Call("execute", "ok", << >>, << >>)
    /\ holder' = "response"
    /\ shape' = "query"
    /\ response' = NewResponse
    /\ out' = << >>
    /\ pc' = "open"
    /\ closeCalled' = FALSE
    /\ outcome' = "none"
    /\ outInfo' = << >>
    /\ \E r \in QueryResults :
        /\ sent' = r
        /\ inbound' = Arrived(Wire("query", r))
    /\ reply' = NoReply
    /\ UNCHANGED << id, hasInfo, issued, retired, state, control, events,
                    peerClosed, truncated, encVars, errVars, failVars, cloneVars >>

\* client.execute(command): the client goes into the Response.
ClientExecute ==
    /\ holder = "client"
    /\ Ready
    /\ \E command \in Paths :
        /\ written' = ClientExecuteBytes(command)
        /\ last' = Call("client_execute", "ok", << >>, << command >>)
    /\ holder' = "output"
    /\ shape' = "plain"
    /\ response' = NewResponse
    /\ out' = << >>
    /\ pc' = "open"
    /\ closeCalled' = FALSE
    /\ outcome' = "none"
    /\ outInfo' = << >>
    /\ \E r \in PlainResults :
        /\ sent' = r
        /\ inbound' = Arrived(Wire("plain", r))
    /\ reply' = NoReply
    /\ UNCHANGED << id, hasInfo, issued, retired, state, control, events,
                    peerClosed, truncated, encVars, errVars, failVars, cloneVars >>

\* The end of response.close() on the Response of an execute, after the
\* drain loop (CloseDrain): the query (the client) comes back when it
\* returns Ok, and is gone with the Response otherwise.
ResponseClose ==
    /\ holder \in { "response", "output" }
    /\ pc = "tail"
    /\ LET c == CloseTail(shape, response, inbound, peerClosed)
       IN  /\ c.outcome /= "blocked"
           /\ inbound' = c.rest
           /\ outcome' = c.outcome
           /\ outInfo' = c.info
           /\ last' = Call("response_close", c.outcome, c.info, << >>)
           /\ holder' = IF c.outcome /= "ok" THEN "none"
                        ELSE IF holder = "response" THEN "query" ELSE "client"
           /\ id' = IF c.outcome = "ok" THEN id ELSE None
    /\ written' = << >>
    /\ pc' = "idle"
    /\ response' = NewResponse
    /\ out' = << >>
    /\ UNCHANGED << hasInfo, issued, retired, reply, state, control, events,
                    peerClosed, truncated, shape, sent, closeCalled,
                    encVars, errVars, failVars, cloneVars >>

\* query.close(): the client comes back when it returns Ok.
QueryClose ==
    /\ holder = "query"
    /\ Ready
    /\ Exchange("query_close", QueryCloseBytes(Unwrap(id)), << >>)
    /\ holder' = IF last'.outcome = "ok" THEN "client" ELSE "none"
    /\ retired' = retired \cup { Unwrap(id) }
    /\ id' = None
    /\ UNCHANGED << hasInfo, issued >>

\* client.create(name)
Create ==
    /\ holder = "client"
    /\ Ready
    /\ \E name \in DatabaseNames :
        /\ written' = CreateBytes(name)
        /\ last' = Call("create", "ok", << >>, << name >>)
    /\ holder' = "command"
    /\ UNCHANGED << id, hasInfo, issued, retired, reply, state, control,
                    events, streamVars, respVars, encVars, errVars, failVars, cloneVars >>

\* command.with_input(input)
WithInput ==
    /\ holder = "command"
    /\ \E input \in Resources :
        Exchange("with_input", written \o WithInputBytes(input),
                 << last.argument[1], input >>)
    /\ holder' = "client"
    /\ UNCHANGED << id, hasInfo, issued, retired >>

\* command.without_input()
WithoutInput ==
    /\ holder = "command"
    /\ Exchange("without_input", written \o WithoutInputBytes,
                << last.argument[1] >>)
    /\ holder' = "client"
    /\ UNCHANGED << id, hasInfo, issued, retired >>

\* client.replace(path, input), client.store(path, input) and
\* client.add(path, input)
Replace ==
    /\ holder = "client"
    /\ Ready
    /\ \E path \in Paths, input \in Resources :
        Exchange("replace", ReplaceBytes(path, input), << path, input >>)
    /\ UNCHANGED sessVars

Store ==
    /\ holder = "client"
    /\ Ready
    /\ \E path \in Paths, input \in Resources :
        Exchange("store", StoreBytes(path, input), << path, input >>)
    /\ UNCHANGED sessVars

Add ==
    /\ holder = "client"
    /\ Ready
    /\ \E path \in Paths, input \in Resources :
        Exchange("add", AddBytes(path, input), << path, input >>)
    /\ UNCHANGED sessVars

\* The peer closes the stream between two responses.
PeerStops ==
    /\ holder \in { "client", "query" }
    /\ ~peerClosed
    /\ peerClosed' = TRUE
    /\ UNCHANGED << inbound, truncated, connVars, respVars, encVars, errVars, failVars, cloneVars,
                    sessVars >>

SessNext ==
    \/ NewQuery
    \/ Bind
    \/ WithValue
    \/ WithoutValue
    \/ Context
    \/ Options
    \/ Info
    \/ Updating
    \/ Execute
    \/ ClientExecute
    \/ Read
    \/ CloseDrain
    \/ ResponseClose
    \/ QueryClose
    \/ Create
    \/ WithInput
    \/ WithoutInput
    \/ Replace
    \/ Store
    \/ Add
    \/ PeerStops

SpecSession == SessInit /\ [][SessNext]_vars

\* ---------------------------------------------- continuations let go
\* The caller drops the value create() or bind() returned without calling
\* with_input / without_input (with_value / without_value): neither type
\* has a Drop of its own, and the borrow of the client (the query) ends.
Discard ==
    /\ holder \in { "command", "argument" }
    /\ holder' = IF holder = "command" THEN "client" ELSE "query"
    /\ UNCHANGED << id, hasInfo, issued, retired, connVars, streamVars,
                    respVars, encVars, errVars, failVars, cloneVars >>

DiscardNext == SessNext \/ Discard

SpecDiscard == SessInit /\ [][DiscardNext]_vars

\* ------------------------------------------------- read_string's runs
\* The bytes on the stream: 0x00, "A", the escape marker, and 0x80, which
\* no UTF-8 text starts with.
WireBytes == { NUL, 65, ESC, 128 }

StrInit ==
    /\ inbound \in SeqsUpTo(WireBytes, MaxWire)
    /\ peerClosed \in BOOLEAN
    /\ truncated = FALSE
    /\ NoResponse
    /\ NoEncoder
    /\ NoConnection
    /\ NoSession
    /\ NoFailure
    /\ NoBreak
    /\ NoClones

\* connection.read_string()
DoReadString ==
    /\ last = NoCall
    /\ LET r == ReadString(inbound, peerClosed)
       IN  /\ r.status /= "blocked"
           /\ inbound' = IF r.status = "io" THEN << >> ELSE r.rest
           /\ events' = << Event("read_string", "read",
                                 IF r.status = "io" THEN inbound
                                 ELSE Slice(inbound, 0, Len(r.value) + 1),
                                 state) >>
           /\ last' = Call("read_string", r.status,
                           IF r.status = "ok" THEN r.value ELSE << >>, << >>)
    /\ UNCHANGED << state, control, written, reply, peerClosed, truncated,
                    respVars, encVars, errVars, failVars, cloneVars, sessVars >>

StrNext == DoReadString

SpecStrings == StrInit /\ [][StrNext]_vars

\* ------------------------------------------- runs on a stream that breaks
\* The calls a method makes, in the order of its source: write_all(bytes),
\* read_string(), is_ok(), and the read of authenticate's control byte.
WriteAll(bytes) == [call |-> "write_all", bytes |-> bytes]
ReadStringCall == [call |-> "read_string", bytes |-> << >>]
IsOkCall == [call |-> "is_ok", bytes |-> << >>]
ControlCall == [call |-> "control", bytes |-> << >>]

\* One call of the stream as the log keeps it: "read" or "write", the bytes
\* moved, and whether the call failed.
StreamCall(op, bytes, failed) == [op |-> op, bytes |-> bytes, failed |-> failed]

\* How a run of calls ended: the outcome, the stream calls made, the bytes
\* the peer has still to send, and the calls the stream has left.
Ran(how, log, rest, h) == [outcome |-> how, log |-> log, rest |-> rest, h |-> h]

\* C22 tells the end of a method at its failed call from a second attempt.
FailedAndRetried(log, op, bytes, inb, h) ==
    Ran("io", log \o << StreamCall(op, bytes, TRUE), StreamCall(op, bytes, TRUE) >>,
        inb, h)

\* `?` after a call of the stream that failed: the method returns the
\* failure as ClientError::Io and calls the stream no more.
Failed(log, op, bytes, inb, h) ==
    Ran("io", Append(log, StreamCall(op, bytes, TRUE)), inb, h)

\* read_string's loop of read_exact calls on one byte each; `text` are the
\* bytes pushed so far.  A read on a stream that has nothing more fails.
RECURSIVE ReadStringBreaking(_, _, _, _)
ReadStringBreaking(inb, h, log, text) ==
    IF h = 0 \/ inb = << >>
    THEN Failed(log, "read", << >>, inb, h)
    ELSE IF Head(inb) = NUL
    THEN Ran(IF Utf8Valid(text) THEN "ok" ELSE "utf8",
             Append(log, StreamCall("read", << NUL >>, FALSE)), Tail(inb),
             h - 1)
    ELSE ReadStringBreaking(Tail(inb), h - 1,
                            Append(log, StreamCall("read", << Head(inb) >>,
                                                   FALSE)),
                            Append(text, Head(inb)))

\* The calls of a method one after the other, each followed by `?`: the
\* first that fails ends the method.
RECURSIVE RunCalls(_, _, _, _)
RunCalls(calls, inb, h, log) ==
    IF calls = << >> THEN Ran("ok", log, inb, h)
    ELSE
    LET c == Head(calls)
    IN  IF c.call = "write_all"
        THEN IF h = 0
             THEN Failed(log, "write", c.bytes, inb, h)
             ELSE RunCalls(Tail(calls), inb, h - 1,
                           Append(log, StreamCall("write", c.bytes, FALSE)))
        ELSE IF c.call = "read_string"
        THEN LET r == ReadStringBreaking(inb, h, log, << >>)
             IN  IF r.outcome /= "ok" THEN r
                 ELSE RunCalls(Tail(calls), r.rest, r.h, r.log)
        ELSE IF h = 0 \/ inb = << >>
        THEN Failed(log, "read", << >>, inb, h)
        ELSE IF Head(inb) /= 0
        THEN Ran(IF c.call = "is_ok" THEN "command_failed" ELSE "auth",
                 Append(log, StreamCall("read", << Head(inb) >>, FALSE)),
                 Tail(inb), h - 1)
        ELSE RunCalls(Tail(calls), Tail(inb), h - 1,
                      Append(log, StreamCall("read", << Head(inb) >>, FALSE)))

\* The calls of the methods of Connection.  copy() hands what the
\* EscapeReader gives it to write_all and makes no call for an empty
\* argument.
SendCmdCalls(code) == << WriteAll(SendCmdBytes(code)) >>
SkipArgCalls == << WriteAll(SkipArgBytes) >>
SendArgCalls(argument) ==
    (IF argument = << >> THEN << >>
     ELSE << WriteAll(CopyEscaped(argument, << >>, MaxBuf)) >>)
    \o SkipArgCalls
\* A get_response that does not read the status byte; C31 tells it from
\* the calls of Connection::get_response.
GetResponseWithoutStatus == << ReadStringCall >>
GetResponseCalls == << ReadStringCall, IsOkCall >>
\* authenticate, for the greeting the peer sends.
AuthenticateCalls(greeting) ==
    LET challenge == Split(greeting, 58)
    IN  << ReadStringCall,
           WriteAll(AuthString(User, Password, challenge[1], challenge[2])),
           ControlCall >>

\* The methods of Client and Query that are made of such calls, for the id
\* "1", the name "X", the value 01 and the bound value true, and what the
\* peer sends for each: [op, calls, frames].
Method(op, calls, frames) == [op |-> op, calls |-> calls, frames |-> frames]
ExchangeFrames == { << NUL, 0 >>, Msg \o << NUL, 1 >> }
BreakingMethods ==
    LET i == << 49 >>
        x == << 88 >>
        v == << 1 >>
        q(code) == SendCmdCalls(code) \o SendArgCalls(i)
    IN  { Method("send_cmd", SendCmdCalls(8), { << >> }),
          Method("send_arg", SendArgCalls(v), { << >> }),
          Method("skip_arg", SkipArgCalls, { << >> }),
          Method("get_response", GetResponseCalls, ExchangeFrames),
          Method("authenticate", AuthenticateCalls(<< 66, 58, 49 >>),
                 { << 66, 58, 49, NUL, 0 >>, << 66, 58, 49, NUL, 1 >> }),
          Method("client_execute", SendArgCalls(x), { << >> }),
          Method("create", SendCmdCalls(ClientCommand.Create)
                           \o SendArgCalls(x), { << >> }),
          Method("with_input", SendArgCalls(v) \o GetResponseCalls,
                 ExchangeFrames),
          Method("without_input", SkipArgCalls \o GetResponseCalls,
                 ExchangeFrames),
          Method("replace", SendCmdCalls(ClientCommand.Replace)
                            \o SendArgCalls(x) \o SendArgCalls(v)
                            \o GetResponseCalls, ExchangeFrames),
          Method("store", SendCmdCalls(ClientCommand.Store)
                          \o SendArgCalls(x) \o SendArgCalls(v)
                          \o GetResponseCalls, ExchangeFrames),
          Method("add", SendCmdCalls(ClientCommand.Add)
                        \o SendArgCalls(x) \o SendArgCalls(v)
                        \o GetResponseCalls, ExchangeFrames),
          Method("bind", q(QueryCommand.Bind) \o SendArgCalls(x), { << >> }),
          Method("with_value", SendArgCalls(TRUE_TEXT)
                               \o SendArgCalls(XS_BOOLEAN)
                               \o GetResponseCalls, ExchangeFrames),
          Method("without_value", SkipArgCalls \o SkipArgCalls
                                  \o GetResponseCalls, ExchangeFrames),
          Method("context", q(QueryCommand.Context) \o SendArgCalls(v)
                            \o SendArgCalls(DOCUMENT_NODE)
                            \o GetResponseCalls, ExchangeFrames),
          Method("options", q(QueryCommand.Options) \o GetResponseCalls,
                 ExchangeFrames),
          Method("info", q(QueryCommand.Info) \o GetResponseCalls,
                 ExchangeFrames),
          Method("updating", q(QueryCommand.Updating) \o GetResponseCalls,
                 { TRUE_TEXT \o << NUL, 0 >>, Msg \o << NUL, 1 >> }),
          Method("execute", q(QueryCommand.Execute), { << >> }),
          Method("query_close", q(QueryCommand.Close) \o GetResponseCalls,
                 ExchangeFrames) }

\* The calls close() makes once its drain loop is over.
CloseTailCalls(sh, self) ==
    IF sh = "plain"
    THEN IF IsSome(self.info_prefix) /\ ~self.info_complete
         THEN << ReadStringCall, IsOkCall >> ELSE << >>
    ELSE IF self.result_complete /\ ~self.is_ok /\ ~self.info_complete
         THEN << ReadStringCall >> ELSE << >>

\* Response::close on a stream that breaks: each turn of the drain loop is
\* one read of the stream, which delivers what the peer has sent, and the
\* rest after the loop are the calls of CloseTailCalls.
RECURSIVE CloseBreaking(_, _, _, _, _)
CloseBreaking(sh, self, inb, h, log) ==
    LET tail == RunCalls(CloseTailCalls(sh, self), inb, h, log)
        done == CloseTail(sh, self, inb, TRUE)
        end == IF tail.outcome = "io" THEN tail
               ELSE Ran(done.outcome, tail.log, done.rest, tail.h)
    IN  IF ReadFinished(sh, self) THEN end
        ELSE IF h = 0
        THEN Failed(log, "read", << >>, inb, h)
        ELSE
        LET k == Min(CloseBuf(sh), Len(inb))
            r == ResponseRead(sh, self, SubSeq(inb, 1, k))
            read == Append(log, StreamCall("read", SubSeq(inb, 1, k), FALSE))
            rest == SubSeq(inb, k + 1, Len(inb))
        IN  IF k = 0
            THEN LET ctail == RunCalls(CloseTailCalls(sh, self), inb, h - 1,
                                       read)
                 IN  IF ctail.outcome = "io" THEN ctail
                     ELSE Ran(done.outcome, ctail.log, done.rest, ctail.h)
            ELSE IF r.panic THEN Ran("panic", read, rest, h - 1)
            ELSE IF Len(r.data) > 0
            THEN CloseBreaking(sh, r.self, rest, h - 1, read)
            ELSE LET t == RunCalls(CloseTailCalls(sh, r.self), rest, h - 1,
                                   read)
                     d == CloseTail(sh, r.self, rest, TRUE)
                 IN  IF t.outcome = "io" THEN t
                     ELSE Ran(d.outcome, t.log, d.rest, t.h)

\* client.query(query).without_info(): execute("SET QUERYINFO false"), the
\* close of its response, then the Query command and get_response.
NewQueryBreaking(wire, frame, h) ==
    LET set == RunCalls(SendArgCalls(SET_QUERYINFO_FALSE), wire \o frame, h,
                        << >>)
        closed == CloseBreaking("plain", NewResponse, set.rest, set.h, set.log)
    IN  IF set.outcome /= "ok" THEN set
        ELSE IF closed.outcome /= "ok" THEN closed
        ELSE RunCalls(SendCmdCalls(ClientCommand.Query) \o SendArgCalls(<< 88 >>)
                      \o GetResponseCalls, closed.rest, closed.h, closed.log)

\* The bytes of the writes of a log that went through.
RECURSIVE WrittenBy(_)
WrittenBy(log) ==
    IF log = << >> THEN << >>
    ELSE (IF Head(log).op = "write" /\ ~Head(log).failed THEN Head(log).bytes
          ELSE << >>) \o WrittenBy(Tail(log))

BreakInit ==
    /\ healthy \in { Some(n) : n \in 0..MaxHealthy }
    /\ NoStream
    /\ NoResponse
    /\ NoEncoder
    /\ NoConnection
    /\ NoSession
    /\ NoFailure
    /\ NoClones

\* What a method leaves behind.
Broke(op, r) ==
    /\ healthy' = Some(r.h)
    /\ events' = r.log
    /\ written' = WrittenBy(r.log)
    /\ last' = Call(op, r.outcome, << >>, << >>)
    /\ inbound' = << >>
    /\ UNCHANGED << peerClosed, truncated, state, control, reply, respVars,
                    encVars, sessVars, errVars, cloneVars >>

\* One of the methods made of calls.
BreakingCall ==
    \E m \in BreakingMethods : \E frame \in m.frames :
        Broke(m.op, RunCalls(m.calls, frame, Unwrap(healthy), << >>))

\* response.close() of either shape.
BreakingClose ==
    \E sh \in Shapes, r \in PlainResults :
        Broke("response_close",
              CloseBreaking(sh, NewResponse, Wire(sh, r), Unwrap(healthy),
                            << >>))

\* The creation of a query.
BreakingNewQuery ==
    \E r \in PlainResults, frame \in { << 49, NUL, 0 >>, Msg \o << NUL, 1 >> } :
        Broke("new_query",
              NewQueryBreaking(Wire("plain", r), frame, Unwrap(healthy)))

BreakNext ==
    \/ BreakingCall
    \/ BreakingClose
    \/ BreakingNewQuery

SpecBreaking == BreakInit /\ [][BreakNext]_vars

\* ------------------------------------- the asynchronous EscapeReader's runs
\* EscapeReader::poll_read(cx, buf) of the asynchronous module with a ReadBuf
\* of capacity L and nothing filled, when the inner reader is Ready with
\* `chunk`: the accumulator afterwards and buf.filled().
AsyncPollReadReady(acc, L, chunk) ==
    LET accumulator_length == Min(L, Len(acc))
        length == accumulator_length
        stream_length == Len(chunk)
        size == accumulator_length + stream_length
        buf0 == PopN(acc, accumulator_length) \o chunk
                \o [j \in 1..(L - size) |-> 0]
        escape_chars_count ==
            Cardinality({j \in (accumulator_length + 1)..size :
                            NeedsEscape(buf0[j])})
        escaped_size == size + escape_chars_count
        extension == Min(L - size, escape_chars_count)
        r == EscapeLoop(buf0, SubSeq(acc, 1, Len(acc) - accumulator_length),
                        accumulator_length, escaped_size - 1,
                        escape_chars_count, FALSE)
    IN  [accumulator |-> r.accumulator,
         data |-> SubSeq(r.buf, 1, length + stream_length + extension)]

\* The same call when the inner reader is Pending: the bytes popped from the
\* accumulator are in the ReadBuf, poll_read returns Pending, and
\* tokio::io::copy, the caller in send_arg, takes bytes from a poll that is
\* Ready only.
AsyncPollReadPending(acc, L) ==
    LET accumulator_length == Min(L, Len(acc))
    IN  [accumulator |-> SubSeq(acc, 1, Len(acc) - accumulator_length),
         data |-> << >>]

\* One poll_read in which the inner reader is Ready.
PollReady ==
    /\ ~encDone
    /\ \E L \in 1..MaxBuf :
         \E k \in InnerDeliverable(inner, L - Min(L, Len(accumulator))) :
            LET r == AsyncPollReadReady(accumulator, L, SubSeq(inner, 1, k))
            IN  /\ inner' = SubSeq(inner, k + 1, Len(inner))
                /\ accumulator' = r.accumulator
                /\ escaped' = escaped \o r.data
                /\ carried' = carried + Len(r.accumulator)
                /\ encDone' = (Len(r.data) = 0)
    /\ UNCHANGED << origin, streamVars, respVars, connVars, sessVars,
                    errVars, failVars, cloneVars >>

\* One poll_read in which the inner reader, which has bytes still to come
\* and room to put them, is Pending.
PollPending ==
    /\ ~encDone
    /\ inner /= << >>
    /\ \E L \in 1..MaxBuf :
         /\ L > Len(accumulator)
         /\ LET r == AsyncPollReadPending(accumulator, L)
            IN  /\ accumulator' = r.accumulator
                /\ escaped' = escaped \o r.data
    /\ UNCHANGED << origin, inner, carried, encDone, streamVars, respVars,
                    connVars, sessVars, errVars, failVars, cloneVars >>

AsyncNext ==
    \/ PollReady
    \/ PollPending

SpecAsyncEncode == EncInit /\ [][AsyncNext]_vars

\* tokio::io::copy(&mut EscapeReader::new(argument), &mut stream) over a
\* source that is always Ready (a byte slice), with a buffer of L bytes.
RECURSIVE AsyncCopyEscaped(_, _, _)
AsyncCopyEscaped(source, acc, L) ==
    LET room == L - Min(L, Len(acc))
        k == Min(room, Len(source))
        r == AsyncPollReadReady(acc, L, SubSeq(source, 1, k))
    IN  IF r.data = << >> THEN << >>
        ELSE r.data \o AsyncCopyEscaped(SubSeq(source, k + 1, Len(source)),
                                        r.accumulator, L)

\* send_arg of the asynchronous Connection: what it writes.
AsyncArgument(argument) ==
    AsyncCopyEscaped(argument, << >>, MaxBuf) \o SkipArgBytes

\* ------------------------------------------------- optional bound values
\* An Option<D>: Some(value), or None, of which `value` tells the type D.
SomeValue(value) == [some |-> TRUE, value |-> value]
NoValue(value) == [some |-> FALSE, value |-> value]
OptionalValues ==
    { SomeValue(v) : v \in Values }
    \cup { NoValue(StrValue(<< >>)), NoValue(I32Value(0)),
           NoValue(BoolValue(FALSE)) }

\* What a write_xquery did: it panicked, or it wrote `bytes`.
Wrote(bytes) == [panic |-> FALSE, bytes |-> bytes]
Panicked == [panic |-> TRUE, bytes |-> << >>]

\* write_xquery of Option<D>, synchronous: self.as_ref().unwrap()
\* .write_xquery(writer).
OptionWriteXquery(opt) ==
    IF opt.some THEN Wrote(WriteXquery(opt.value)) ELSE Panicked

\* write_xquery of Option<D>, asynchronous: Some(data) =>
\* data.write_xquery(writer), None => "".write_xquery(writer).
AsyncOptionWriteXquery(opt) ==
    IF opt.some THEN Wrote(AsyncArgument(ValueText(opt.value)))
    ELSE Wrote(AsyncArgument(<< >>))

OptInit ==
    /\ \E info \in Infos, status \in StatusBytes :
          inbound = info \o << NUL, status >>
    /\ peerClosed = FALSE
    /\ truncated = FALSE
    /\ NoResponse
    /\ NoEncoder
    /\ NoConnection
    /\ NoSession
    /\ NoFailure
    /\ NoBreak
    /\ NoClones

\* with_value(value): write_xquery, send_arg of the type, get_response; a
\* panic of write_xquery unwinds before anything else is done.
OptionalExchange(op, w, type, opt) ==
    LET g == GetResponse(inbound, peerClosed)
    IN  /\ last = NoCall
        /\ g.outcome /= "blocked"
        /\ written' = IF w.panic THEN << >> ELSE w.bytes \o type
        /\ inbound' = IF w.panic THEN inbound ELSE g.rest
        /\ events' = IF w.panic THEN << >> ELSE g.events
        /\ last' = Call(op, IF w.panic THEN "panic" ELSE g.outcome,
                        IF w.panic THEN << >> ELSE g.info,
                        << opt >>)
        /\ UNCHANGED << state, control, reply, peerClosed, truncated,
                        respVars, encVars, sessVars, errVars, failVars,
                        cloneVars >>

\* argument.with_value(value) of the synchronous API, for an Option<D>.
WithOptionalValue ==
    \E opt \in OptionalValues :
        OptionalExchange("with_value", OptionWriteXquery(opt),
                         Argument(XqueryType(opt.value)), opt)

\* argument.with_value(value).await of the asynchronous API.
AsyncWithOptionalValue ==
    \E opt \in OptionalValues :
        OptionalExchange("async_with_value", AsyncOptionWriteXquery(opt),
                         AsyncArgument(XqueryType(opt.value)), opt)

OptNext ==
    \/ WithOptionalValue
    \/ AsyncWithOptionalValue

SpecOptional == OptInit /\ [][OptNext]_vars

\* ------------------------------------------------ the handles of a stream
\* C23 tells a duplicate that has the tag of its original from one that
\* starts over.
ClonedStateFresh(st) == "Unauthenticated"

\* Connection::try_clone: Self { state: Default::default(), stream:
\* self.stream.try_clone()? }.  Self is Connection<T, State>, so the
\* duplicate has the type tag of the original.
ClonedState(st) == st

\* A completed method of one handle.
HandleCall(op, how, info, argument, h) ==
    [op |-> op, outcome |-> how, info |-> info, argument |-> argument,
     handle |-> h]

\* The commands sent through the handles: SET QUERYINFO true / false.
CloneCommands == { SET_QUERYINFO_TRUE, SET_QUERYINFO_FALSE }

\* The 0x00-terminated frames of the bytes on the stream.
FramesOf(bytes) ==
    LET parts == Split(bytes, NUL) IN SubSeq(parts, 1, Len(parts) - 1)

\* The server's session is the one of the stream: the value of QUERYINFO in
\* it is the one of the last SET QUERYINFO frame that arrived, whichever
\* handle wrote it.
ServerQueryInfo(bytes) ==
    LET frames == FramesOf(bytes)
        sets == { i \in DOMAIN frames : frames[i] \in CloneCommands }
    IN  IF sets = {} THEN << >>
        ELSE frames[CHOOSE i \in sets : \A j \in sets : j <= i]

CloneInit ==
    /\ handles = << "Unauthenticated" >>
    /\ channel = << >>
    /\ NoCallers
    /\ \E c \in { 0, 1 } : inbound = << 66, 58, 49, NUL, c >>
    /\ peerClosed = FALSE
    /\ truncated = FALSE
    /\ NoResponse
    /\ NoEncoder
    /\ NoConnection
    /\ NoSession
    /\ NoFailure
    /\ NoBreak

\* What a method of handle h leaves behind.
Handled(op, how, info, argument, h, log, bytes) ==
    /\ written' = bytes
    /\ events' = log
    /\ channel' = channel \o bytes
    /\ last' = HandleCall(op, how, info, argument, h)
    /\ UNCHANGED << state, control, reply, peerClosed, truncated, respVars,
                    encVars, sessVars, errVars, failVars, callers, exclusive,
                    answered >>

\* handle.authenticate(user, password)
HandleAuthenticate ==
    \E h \in DOMAIN handles :
        /\ CanAuthenticate(handles[h])
        /\ LET a == Authenticate(inbound, peerClosed, User, Password)
           IN  /\ a.outcome /= "blocked"
               /\ handles' = [handles EXCEPT ![h] = a.state]
               /\ inbound' = a.rest
               /\ Handled("authenticate", a.outcome, << >>, << >>, h,
                          a.events, a.written)

\* handle.try_clone(), when the stream can be duplicated and when it cannot;
\* Clone::clone unwraps the result, so that it panics in the second case.
HandleTryClone ==
    \E h \in DOMAIN handles, ok \in BOOLEAN :
        /\ handles[h] /= "Consumed"
        /\ Len(handles) < MaxHandles
        /\ handles' = IF ok THEN Append(handles, ClonedState(handles[h]))
                      ELSE handles
        /\ inbound' = inbound
        /\ Handled("try_clone", IF ok THEN "ok" ELSE "io", << >>, << >>, h,
                   << >>, << >>)

\* client.execute(command) through a handle: send_arg(command).
HandleSendArg ==
    \E h \in DOMAIN handles, command \in CloneCommands :
        /\ CanFrame(handles[h])
        /\ Len(FramesOf(channel)) < MaxFrames
        /\ UNCHANGED << handles, inbound >>
        /\ Handled("send_arg", "ok", << >>, command, h,
                   << Event("send_arg", "write", Argument(command),
                            handles[h]) >>,
                   Argument(command))

\* handle.get_response()
HandleGetResponse ==
    \E h \in DOMAIN handles :
        /\ CanFrame(handles[h])
        /\ LET g == GetResponse(inbound, peerClosed)
           IN  /\ g.outcome /= "blocked"
               /\ inbound' = g.rest
               /\ UNCHANGED handles
               /\ Handled("get_response", g.outcome, g.info, << >>, h,
                          g.events, << >>)

\* The server answers the command it received, or the authentication of a
\* second handle, on the one stream.
ServerAnswers ==
    /\ inbound = << >>
    /\ last.op \in { "send_arg", "try_clone" }
    /\ \E frame \in { << NUL, 0 >>, Msg \o << NUL, 1 >>,
                      << 66, 58, 49, NUL, 0 >> } :
          inbound' = frame
    /\ UNCHANGED << peerClosed, truncated, connVars, respVars, encVars,
                    sessVars, errVars, failVars, cloneVars >>

CloneNext ==
    \/ HandleAuthenticate
    \/ HandleTryClone
    \/ HandleSendArg
    \/ HandleGetResponse
    \/ ServerAnswers

SpecClones == CloneInit /\ [][CloneNext]_vars

\* ------------------------------------- a client and its clone, two callers
\* Caller 1 holds a client, caller 2 its clone (Client::clone); both are
\* handles of one stream.  Each caller stores an empty resource under a
\* path of its own: client.store(path, "").
MaxCommands == 1
Callers == { 1, 2 }
PathOf(c) == IF c = 1 THEN << 97 >> ELSE << 98 >>

\* The stream calls of client.store(path, input), in order.
StoreCalls(path, input) ==
    SendCmdCalls(ClientCommand.Store) \o SendArgCalls(path)
    \o SendArgCalls(input) \o GetResponseCalls

\* The server reads the stream as a sequence of store frames: a code byte
\* and two 0x00-terminated arguments.  CommandsIn gives the first arguments
\* of the frames that have arrived whole.
RECURSIVE CommandsIn(_)
CommandsIn(bytes) ==
    IF bytes = << >> THEN << >>
    ELSE LET one == Position(Tail(bytes), NUL)
         IN  IF one < 0 THEN << >>
             ELSE LET after == Drop(Tail(bytes), one + 1)
                      two == Position(after, NUL)
                  IN  IF two < 0 THEN << >>
                      ELSE << Slice(Tail(bytes), 0, one) >>
                           \o CommandsIn(Drop(after, two + 1))

\* The server's answer to a store: an info that names the path, 0x00, and
\* the status 0.
AnswerTo(path) == path \o << NUL, 0 >>

NewCaller == [todo |-> << >>, got |-> << >>, done |-> 0]

RaceInit ==
    /\ callers = [c \in Callers |-> NewCaller]
    /\ exclusive \in BOOLEAN
    /\ answered = 0
    /\ handles = << "Authenticated", ClonedState("Authenticated") >>
    /\ channel = << >>
    /\ inbound = << >>
    /\ peerClosed = FALSE
    /\ truncated = FALSE
    /\ NoResponse
    /\ NoEncoder
    /\ NoConnection
    /\ NoSession
    /\ NoFailure
    /\ NoBreak

\* The calls caller c has still to make: those of the command it is within,
\* or those of the command it starts.
TodoOf(c) ==
    IF callers[c].todo /= << >> THEN callers[c].todo
    ELSE StoreCalls(PathOf(c), << >>)

\* Caller c may go on: it is within a command, or it starts one, which
\* callers that take turns do only when no other caller is within one.
MayStep(c) ==
    \/ callers[c].todo /= << >>
    \/ /\ callers[c].done < MaxCommands
       /\ exclusive => \A d \in Callers \ {c} : callers[d].todo = << >>

\* What a caller is after its next stream call has returned.
AfterCall(c, rest, got) ==
    [todo |-> rest, got |-> got,
     done |-> callers[c].done + (IF rest = << >> THEN 1 ELSE 0)]

\* Caller c makes the next write_all of its command through its handle.
CallerWrites ==
    \E c \in Callers :
        /\ MayStep(c)
        /\ CanFrame(handles[c])
        /\ Head(TodoOf(c)).call = "write_all"
        /\ channel' = channel \o Head(TodoOf(c)).bytes
        /\ callers' = [callers EXCEPT
                          ![c] = AfterCall(c, Tail(TodoOf(c)), callers[c].got)]
        /\ UNCHANGED << handles, exclusive, answered, streamVars, connVars,
                        respVars, encVars, sessVars, errVars, failVars >>

\* Caller c makes the next read_exact of one byte: within read_string,
\* which ends at a 0x00, or as is_ok.  The call blocks on an empty stream.
CallerReads ==
    \E c \in Callers :
        /\ MayStep(c)
        /\ Head(TodoOf(c)).call \in { "read_string", "is_ok" }
        /\ inbound /= << >>
        /\ inbound' = Tail(inbound)
        /\ callers' = [callers EXCEPT
              ![c] = AfterCall(c,
                        IF Head(TodoOf(c)).call = "read_string"
                           /\ Head(inbound) /= NUL
                        THEN TodoOf(c) ELSE Tail(TodoOf(c)),
                        Append(callers[c].got, Head(inbound)))]
        /\ UNCHANGED << handles, channel, exclusive, answered, peerClosed,
                        truncated, connVars, respVars, encVars, sessVars,
                        errVars, failVars >>

\* The server answers the next frame that has arrived whole.
ServerAnswersStore ==
    /\ answered < Len(CommandsIn(channel))
    /\ inbound' = inbound \o AnswerTo(CommandsIn(channel)[answered + 1])
    /\ answered' = answered + 1
    /\ UNCHANGED << handles, channel, callers, exclusive, peerClosed,
                    truncated, connVars, respVars, encVars, sessVars,
                    errVars, failVars >>

RaceNext == CallerWrites \/ CallerReads \/ ServerAnswersStore

SpecRace == RaceInit /\ [][RaceNext]_vars
\* ------------------------------------------------ the query error's runs
\* "Stopped at "
STOPPED_AT == << 83, 116, 111, 112, 112, 101, 100, 32, 97, 116, 32 >>
\* "." and "C:/P (x)/f"
Files == { << 46 >>, << 67, 58, 47, 80, 32, 40, 120, 41, 47, 102 >> }
\* A line or column number: its digits and its value.
Number(text, value) == [text |-> text, value |-> value]
\* "1" and "12"
Lines == { Number(<< 49 >>, 1), Number(<< 49, 50 >>, 12) }
\* "2" and "87"
Columns == { Number(<< 50 >>, 2), Number(<< 56, 55 >>, 87) }
\* What stands before '[': a space or a newline.
Separators == { 32, 10 }
\* "X" and "bxerr:B"
ErrorCodes == { << 88 >>, << 98, 120, 101, 114, 114, 58, 66 >> }
\* "", "m", "]", "[", ":", "/", "," and "a]/[b:,"
Messages == { << >>, << 109 >>, << 93 >>, << 91 >>, << 58 >>, << 47 >>,
              << 44 >>, << 97, 93, 47, 91, 98, 58, 44 >> }

\* The error text the server sends for these parts:
\* "Stopped at <file>, <line>/<column>: [<code>] <message>".
ErrorText(form) ==
    STOPPED_AT \o form.file \o << 44, 32 >> \o form.line.text \o << 47 >>
    \o form.column.text \o << 58, form.separator, 91 >> \o form.code
    \o << 93, 32 >> \o form.message

ErrInit ==
    /\ \E file \in Files, line \in Lines, column \in Columns,
          separator \in Separators, code \in ErrorCodes,
          message \in Messages :
        LET form == [file |-> file, line |-> line, column |-> column,
                     separator |-> separator, code |-> code,
                     message |-> message]
        IN  failure = Some([form |-> form, raw |-> ErrorText(form),
                            error |-> None])
    /\ NoStream
    /\ NoResponse
    /\ NoEncoder
    /\ NoConnection
    /\ NoSession
    /\ NoBreak
    /\ NoClones

\* QueryFailed::new(raw)
QueryFailedParse ==
    /\ IsSome(failure)
    /\ Unwrap(failure).error = None
    /\ failure' = Some([Unwrap(failure) EXCEPT
                            !.error = Some(QueryFailedNew(Unwrap(failure).raw))])
    /\ UNCHANGED << streamVars, respVars, encVars, connVars, sessVars,
                    failVars, cloneVars >>

ErrNext == QueryFailedParse

SpecErrors == ErrInit /\ [][ErrNext]_vars

\* ================================================================ claims
\* The peer sends a response whose status byte is 0 or 1.
ValidStatus == sent.status \in {0, 1}

\* C1: when a well-formed response (status 0 or 1, the stream not cut short)
\* is delivered in chunks of any sizes, the bytes returned by the successive
\* read() calls of either decoder shape are a prefix of the payload B at
\* every moment, and are exactly B once the decoder has finished the payload.
C1_ChunkedDecodeEqualsPayload ==
    (ValidStatus /\ ~truncated) =>
        /\ IsPrefix(out, sent.B)
        /\ (ReadFinished(shape, response) => out = sent.B)

\* C7: for both shapes, a response whose status byte is neither 0 nor 1 ends
\* every operation on it in the fatal fault: once the decoder is done with a
\* fully delivered response it has panicked, and it has returned neither
\* success nor CommandFailed nor QueryFailed.
C7_InvalidStatusIsFatal ==
    (~ValidStatus /\ ~truncated /\ pc = "done") =>
        /\ outcome \notin {"ok", "command_failed", "query_failed"}
        /\ (~peerClosed => outcome = "panic")

\* C8: for a plain-command response payload, 0x00, info, 0x00, status that
\* is fully delivered, close() returns the complete info with Ok when the
\* status is 0 and with CommandFailed when it is 1, for every chunking.
C8_PlainCloseReturnsInfo ==
    (shape = "plain" /\ ValidStatus /\ ~peerClosed /\ closeCalled
        /\ pc = "done") =>
        /\ outcome = (IF sent.status = 0 THEN "ok" ELSE "command_failed")
        /\ outInfo = sent.text

\* C9: for a query-execute response that is fully delivered: with status 0
\* the reads decode the payload and close() returns the session; with
\* status 1 close() returns a failure carrying the complete error text E.
C9_QueryCloseOutcome ==
    (shape = "query" /\ ValidStatus /\ ~peerClosed /\ closeCalled
        /\ pc = "done") =>
        IF sent.status = 0
        THEN outcome = "ok" /\ out = sent.B
        ELSE outcome = "query_failed" /\ outInfo = sent.text

\* C10: when the stream ends before the whole response has arrived, close()
\* ends in the fatal fault: never success, never a typed error.
C10_TruncatedResponseIsFatal ==
    (truncated /\ closeCalled /\ pc = "done") => outcome = "panic"

\* The accumulator read as the bytes it will hand out, first one first.
RECURSIVE Reverse(_)
Reverse(s) == IF s = << >> THEN << >> ELSE Append(Reverse(Tail(s)), Head(s))

\* C2: for every source, every split of it into inner reads and every
\* sequence of non-empty output buffers, nothing is lost, duplicated or
\* reordered: the bytes returned so far, then the accumulator's bytes, then
\* the encoding of what the source still holds, are the reference encoding
\* of the source; and once a read has returned 0 the bytes returned are
\* exactly that encoding.
C2_EscapeReaderEncodes ==
    /\ escaped \o Reverse(accumulator) \o Encode(inner) = Encode(origin)
    /\ (encDone => escaped = Encode(origin))

\* C2 witness: a source with 0x00 and 0xFF has been relayed to its end and
\* bytes that did not fit a buffer went through the accumulator.
C2_Witness ==
    /\ encDone
    /\ carried > 1
    /\ \E i \in 1..Len(origin) : origin[i] = NUL
    /\ \E i \in 1..Len(origin) : origin[i] = ESC
    /\ escaped = Encode(origin)

\* The positions of the unescaped 0x00 bytes of a wire byte string w, from
\* position i on: a byte that follows an escape marker is escaped.
RECURSIVE UnescapedNuls(_, _)
UnescapedNuls(w, i) ==
    IF i > Len(w) THEN {}
    ELSE IF w[i] = ESC THEN UnescapedNuls(w, i + 2)
    ELSE (IF w[i] = NUL THEN {i} ELSE {}) \cup UnescapedNuls(w, i + 1)

\* C3: what send_arg wrote is the reference encoding of its argument
\* followed by one 0x00, for every size of the copy buffer, so the frame has
\* exactly one unescaped 0x00 and that is its last byte; what skip_arg wrote
\* is the single byte 0x00.
C3_ArgumentFrame ==
    /\ (last.op = "send_arg" =>
           /\ written = Encode(last.argument) \o << NUL >>
           /\ UnescapedNuls(written, 1) = { Len(written) }
           /\ events = << Event("send_arg", "write", written, state) >>)
    /\ (last.op = "skip_arg" =>
           /\ written = << NUL >>
           /\ events = << Event("skip_arg", "write", << NUL >>, state) >>)

\* C3 witness: send_arg has framed an argument that holds 0x00 and 0xFF.
C3_Witness ==
    /\ last.op = "send_arg"
    /\ last.argument = << NUL, ESC >>
    /\ written = << ESC, NUL, ESC, ESC, NUL >>

FrameOps == { "send_cmd", "send_arg", "skip_arg", "get_response" }

\* C4: every stream operation of send_cmd, send_arg, skip_arg and
\* get_response is made through a connection in the Authenticated state,
\* whose authenticate has read the control byte 0; the connection is
\* Authenticated exactly when that has happened; and no step takes an
\* Authenticated connection to another state.
C4_FramingNeedsAuthentication ==
    /\ [](/\ \A i \in 1..Len(events) :
                events[i].by \in FrameOps =>
                    /\ events[i].st = "Authenticated"
                    /\ control = Some(0)
          /\ (last.op \in FrameOps => state = "Authenticated")
          /\ (state = "Authenticated" <=> control = Some(0)))
    /\ [][state = "Authenticated" => state' = "Authenticated"]_vars

\* C4 witness: a command code has been written after a handshake that
\* ended with the control byte 0.
C4_Witness ==
    /\ last.op = "send_cmd"
    /\ written \in { << c >> : c \in Codes }
    /\ state = "Authenticated"
    /\ control = Some(0)

IsLowerHex(c) == (c >= 48 /\ c <= 57) \/ (c >= 97 /\ c <= 102)

\* The reply form: user, 0x00, 32 lowercase hex digits, 0x00.
IsAuthReply(w, user) ==
    LET n == Len(user)
    IN  /\ Len(w) = n + 34
        /\ SubSeq(w, 1, n) = user
        /\ w[n + 1] = NUL
        /\ \A i \in (n + 2)..(n + 33) : IsLowerHex(w[i])
        /\ w[n + 34] = NUL

\* C5: the stream operations of authenticate are, in order, the read of
\* the greeting, one write, one read of one byte, and no others; the write
\* is made only after the greeting has been read up to its first 0x00 and
\* is user, 0x00, 32 lowercase hex digits, 0x00; the connection is
\* Authenticated exactly when the byte read is 0; for a nonzero byte the call
\* ends with the Auth error and the connection is consumed, and stays so.
C5_HandshakeOrder ==
    /\ (last.op = "authenticate" =>
           /\ Len(events) \in { 1, 3 }
           /\ events[1].op = "read"
           /\ (Len(events) = 1 =>
                   /\ written = << >>
                   /\ state = "Consumed"
                   /\ last.outcome \in { "io", "utf8", "panic" })
           /\ (Len(events) = 3 =>
                   /\ Position(events[1].bytes, NUL) = Len(events[1].bytes) - 1
                   /\ events[2].op = "write"
                   /\ events[2].bytes = written
                   /\ IsAuthReply(written, User)
                   /\ events[3].op = "read"
                   /\ Len(events[3].bytes) <= 1
                   /\ (events[3].bytes = << >> =>
                           last.outcome = "io" /\ state = "Consumed")
                   /\ (events[3].bytes /= << >> =>
                           /\ control = Some(events[3].bytes[1])
                           /\ IF events[3].bytes[1] = 0
                              THEN last.outcome = "ok"
                                   /\ state = "Authenticated"
                              ELSE last.outcome = "auth"
                                   /\ state = "Consumed")))
    /\ (state = "Authenticated" <=> control = << 0 >>)
    /\ (IsSome(control) /\ control /= << 0 >> => state = "Consumed")
    /\ (state = "Unauthenticated" => events = << >> /\ written = << >>)

\* C5 witness: a handshake has been rejected with a nonzero control byte.
C5_Witness ==
    /\ last.op = "authenticate"
    /\ last.outcome = "auth"
    /\ Len(events) = 3
    /\ events[3].bytes = << 1 >>
    /\ state = "Consumed"

\* C6: get_response reads the info text up to and with its 0x00 and then
\* one byte, and nothing else; when it has read both, it returns the info
\* text as Ok if the byte is 0 and as CommandFailed for every other byte.
C6_GetResponseOutcome ==
    last.op = "get_response" =>
        /\ Len(events) \in { 1, 2 }
        /\ \A i \in 1..Len(events) : events[i].op = "read"
        /\ written = << >>
        /\ (Len(events) = 1 => last.outcome \in { "io", "utf8" })
        /\ (Len(events) = 2 =>
               /\ Position(events[1].bytes, NUL) = Len(events[1].bytes) - 1
               /\ Len(events[2].bytes) <= 1
               /\ (events[2].bytes = << >> => last.outcome = "io")
               /\ (events[2].bytes /= << >> =>
                      LET info == Slice(events[1].bytes, 0,
                                        Len(events[1].bytes) - 1)
                      IN  /\ last.info = info
                          /\ last.outcome = IF events[2].bytes[1] = 0
                                            THEN "ok" ELSE "command_failed"
                          /\ (~truncated =>
                                 /\ info = reply.info
                                 /\ events[2].bytes[1] = reply.status)))

\* C6 witness: get_response has returned CommandFailed with the text "msg"
\* for the status byte 2.
C6_Witness ==
    /\ last.op = "get_response"
    /\ last.outcome = "command_failed"
    /\ last.info = Msg
    /\ reply = [info |-> Msg, status |-> 2]

\* What close() still reads from the stream once its drain loop is over:
\* nothing when the decoder holds the complete text (or, for the query
\* shape, the status 0).
CloseReadsNothing(sh, self) ==
    IF sh = "plain" THEN self.info_complete
    ELSE self.is_ok \/ self.info_complete

\* C11: once the reads of a decoder have taken a whole well-formed response
\* from the stream (delimiter, text and status), the decoder is finished:
\* a further read() returns 0 at its early return and close() goes through
\* without a read on the stream.
C11_DrainedDecoderReadsNothing ==
    (pc = "open" /\ ValidStatus /\ ~peerClosed /\ inbound = << >>) =>
        /\ ReadFinished(shape, response)
        /\ CloseReadsNothing(shape, response)

\* C12: the order of a query session.  While the Response of an execute is
\* open nothing but its close() is recorded as a call; when the Response
\* leaves, the query it hands back is the one that was executed (same id,
\* same HasInfo) and it hands one back exactly when close() returned Ok;
\* Query.close() writes Close and the id, takes the whole reply frame from
\* the stream, gives the client back exactly when it returned Ok and leaves
\* no session behind; no live session carries the id of a closed one.
C12_SessionOrdering ==
    /\ [](IsSome(id) => Unwrap(id) \notin retired)
    /\ [][/\ (holder = "response" /\ last' /= last) =>
                (last'.op = "response_close" /\ holder' \in { "query", "none" })
          /\ (holder = "response" /\ holder' /= "response") =>
                /\ last'.op = "response_close"
                /\ (holder' = "query") = (last'.outcome = "ok")
                /\ holder' = "query" => (id' = id /\ hasInfo' = hasInfo)
          /\ (holder = "query" /\ last'.op = "query_close") =>
                /\ written' = << QueryCommand.Close >> \o Unwrap(id) \o << NUL >>
                /\ (inbound = << >> /\ ~peerClosed) => inbound' = << >>
                /\ (holder' = "client") = (last'.outcome = "ok")
                /\ holder' \in { "client", "none" }
                /\ id' = None
                /\ Unwrap(id) \in retired'
         ]_vars

\* C12 witness: a Response has handed its query back with Ok, in a session
\* created after an earlier one was closed.
C12_Witness ==
    /\ last.op = "response_close"
    /\ last.outcome = "ok"
    /\ holder = "query"
    /\ retired /= {}

\* The operations of a query session, by the name a call is recorded under.
SessionOps == { "bind", "with_value", "without_value", "context", "options",
                "info", "updating", "execute", "query_close" }

\* C13: a session keeps the id and the HasInfo it was created with - the
\* id is the text get_response returned at its creation - and every command
\* the session writes has that id, NUL-terminated, right after its code
\* byte.
C13_SessionIdIsFixed ==
    [][/\ (IsSome(id) /\ IsSome(id')) => (id' = id /\ hasInfo' = hasInfo)
       /\ (holder = "client" /\ holder' = "query") =>
             (last'.op = "new_query" /\ id' = Some(last'.info))
       /\ (holder \in { "query", "argument" } /\ last' /= last) =>
             /\ last'.op \in SessionOps
             /\ Len(written') >= Len(Unwrap(id)) + 2
             /\ SubSeq(written', 2, Len(Unwrap(id)) + 2) =
                    Unwrap(id) \o << NUL >>
      ]_vars

\* C13 witness: the second session of a run has bound a value, after the
\* first was closed.
C13_Witness ==
    /\ last.op = "with_value"
    /\ last.outcome = "ok"
    /\ id = Some(<< 50 >>)
    /\ retired = { << 49 >> }

\* The code byte the claim gives for each operation of a query session.
SessionCode(op) ==
    CASE op = "query_close" -> 2
      [] op \in { "bind", "with_value", "without_value" } -> 3
      [] op = "execute" -> 5
      [] op = "info" -> 6
      [] op = "options" -> 7
      [] op = "context" -> 14
      [] op = "updating" -> 30

\* C14: the frame of every operation of a query session starts with one
\* code byte - close 2, bind 3, execute 5, info 6, options 7, context 14,
\* updating 30 - followed at once by the NUL-terminated id, and for close,
\* execute, info, options and updating that is the whole frame; the seven
\* codes are pairwise distinct and none is a standard-mode code (0, 8, 9,
\* 12, 13).
C14_QueryCommandCodes ==
    LET query == { QueryCommand[f] : f \in DOMAIN QueryCommand }
        standard == { ClientCommand[f] : f \in DOMAIN ClientCommand }
    IN  /\ query = { 2, 3, 5, 6, 7, 14, 30 }
        /\ Cardinality(DOMAIN QueryCommand) = 7
        /\ standard = { 0, 8, 9, 12, 13 }
        /\ query \cap standard = {}
        /\ last.op \in SessionOps =>
              \E i \in Ids :
                  LET head == << SessionCode(last.op) >> \o i \o << NUL >>
                  IN  /\ Len(written) >= Len(head)
                      /\ SubSeq(written, 1, Len(head)) = head
                      /\ last.op \in { "query_close", "execute", "info",
                                       "options", "updating" } =>
                            written = head

\* C14 witness: info() has been called on the session with the id "1".
C14_Witness ==
    /\ last.op = "info"
    /\ written = << 6, 49, NUL >>

\* An argument as the claims give it: its bytes escaped, then one 0x00.
Framed(argument) == Encode(argument) \o << NUL >>

\* get_response has taken the one frame the server answered with and has
\* returned its text: Ok for the status 0, CommandFailed otherwise.
ReadsInfoAndStatus ==
    (inbound = << >> /\ ~peerClosed) =>
        /\ inbound' = << >>
        /\ last'.info = reply'.info
        /\ last'.outcome = IF reply'.status = 0 THEN "ok" ELSE "command_failed"

ClaimedText(value) ==
    CASE value.type = "str" -> value.s
      [] value = I32Value(123) -> << 49, 50, 51 >>
      [] value = I32Value(-5) -> << 45, 53 >>
      [] value = BoolValue(TRUE) -> << 116, 114, 117, 101 >>
      [] value = BoolValue(FALSE) -> << 102, 97, 108, 115, 101 >>
ClaimedType(value) ==
    CASE value.type = "str" -> << 120, 115, 58, 115, 116, 114, 105, 110, 103 >>
      [] value.type = "i32" -> << 120, 115, 58, 105, 110, 116 >>
      [] value.type = "bool" ->
            << 120, 115, 58, 98, 111, 111, 108, 101, 97, 110 >>

\* C16: bind(name) writes 03, the id, 00, the name, 00; with_value(v) adds
\* the text of v, 00, the type token of v, 00 and reads one response;
\* without_value() adds 00, 00 and reads one response.  Each argument is
\* written escaped, and every bind writes this frame whatever was bound
\* before it.
C16_BindFrame ==
    [][(holder \in { "query", "argument" } /\ last' /= last /\
        last'.op \in { "bind", "with_value", "without_value" }) =>
        LET a == last'.argument
            head == << 3 >> \o Unwrap(id) \o << NUL >> \o Framed(a[1])
        IN  /\ last'.op = "bind" =>
                  (holder = "query" /\ holder' = "argument" /\ written' = head)
            /\ last'.op = "with_value" =>
                  /\ holder = "argument"
                  /\ holder' = "query"
                  /\ written' = head \o Framed(ClaimedText(a[2]))
                                     \o Framed(ClaimedType(a[2]))
                  /\ ReadsInfoAndStatus
            /\ last'.op = "without_value" =>
                  /\ holder = "argument"
                  /\ holder' = "query"
                  /\ written' = head \o << NUL, NUL >>
                  /\ ReadsInfoAndStatus
      ]_vars

\* C16 witness: "foo" has been bound to the i32 123 in the session "1".
C16_Witness ==
    /\ last.op = "with_value"
    /\ last.outcome = "ok"
    /\ written = << 3, 49, 0, 102, 111, 111, 0, 49, 50, 51, 0,
                    120, 115, 58, 105, 110, 116, 0 >>

\* C17: create(name) followed by with_input(input) has written 08, the name
\* escaped, 00, the input escaped, 00; followed by without_input() it has
\* written 08, the name escaped, 00, 00.  Either then reads the info text
\* and the status byte of one response and returns that text when the
\* status is 0 (CommandFailed with it otherwise), and the client is free
\* again.
C17_CreateFrame ==
    [][(holder = "command" /\ last' /= last) =>
        LET name == last.argument[1]
            sent_name == << 8 >> \o Encode(name) \o << NUL >>
        IN  /\ last.op = "create"
            /\ written = sent_name
            /\ last'.op \in { "with_input", "without_input" }
            /\ holder' = "client"
            /\ last'.op = "with_input" =>
                  written' = sent_name \o Encode(last'.argument[2]) \o << NUL >>
            /\ last'.op = "without_input" => written' = sent_name \o << NUL >>
            /\ (inbound = << >> /\ ~peerClosed) =>
                  /\ inbound' = << >>
                  /\ reply'.status = 0 =>
                        (last'.outcome = "ok" /\ last'.info = reply'.info)
                  /\ reply'.status /= 0 =>
                        (last'.outcome = "command_failed" /\
                         last'.info = reply'.info)
      ]_vars

\* C17 witness: create("X").with_input(<00>) has returned Ok; the input's
\* 0x00 went out as FF 00.
C17_Witness ==
    /\ last.op = "with_input"
    /\ last.outcome = "ok"
    /\ written = << 8, 88, NUL, ESC, NUL, NUL >>

\* C18: context(value) writes 0E, the id, 00, the value escaped, 00,
\* "document-node()", 00 - for the empty value too - then takes one response
\* from the stream, and the caller still holds the session, with its id.
C18_ContextFrame ==
    [][(holder = "query" /\ last' /= last /\ last'.op = "context") =>
        LET value == last'.argument[1]
        IN  /\ written' = << 14 >> \o Unwrap(id) \o << NUL >>
                          \o Encode(value) \o << NUL >>
                          \o << 100, 111, 99, 117, 109, 101, 110, 116, 45,
                                110, 111, 100, 101, 40, 41, NUL >>
            /\ (inbound = << >> /\ ~peerClosed) =>
                  /\ inbound' = << >>
                  /\ last'.outcome = IF reply'.status = 0 THEN "ok"
                                     ELSE "command_failed"
            /\ holder' = "query"
            /\ id' = id
      ]_vars

\* C18 witness: context("") has returned Ok in the session "1".
C18_Witness ==
    /\ last.op = "context"
    /\ last.outcome = "ok"
    /\ last.argument = << << >> >>
    /\ written = << 14, 49, NUL, NUL, 100, 111, 99, 117, 109, 101, 110, 116,
                    45, 110, 111, 100, 101, 40, 41, NUL >>
    /\ holder = "query"

\* C19: updating() writes 1E, the id, 00 and takes one response from the
\* stream; with the status 0 it returns for the text "true" and for the
\* text "false" (the answer is kept as that text) and panics for any other
\* text, which ends the session; with another status it returns
\* CommandFailed and the session goes on.
C19_UpdatingResult ==
    [][(holder = "query" /\ last'.op = "updating" /\
        (last' /= last \/ written' /= written)) =>
        /\ written' = << 30 >> \o Unwrap(id) \o << NUL >>
        /\ (inbound = << >> /\ ~peerClosed) =>
              /\ inbound' = << >>
              /\ (reply'.status = 0 /\ reply'.info = << 116, 114, 117, 101 >>)
                    => (last'.outcome = "ok" /\ last'.info = reply'.info)
              /\ (reply'.status = 0 /\
                  reply'.info = << 102, 97, 108, 115, 101 >>)
                    => (last'.outcome = "ok" /\ last'.info = reply'.info)
              /\ (reply'.status = 0 /\
                  reply'.info \notin { << 116, 114, 117, 101 >>,
                                       << 102, 97, 108, 115, 101 >> })
                    => last'.outcome = "panic"
              /\ reply'.status /= 0 => last'.outcome = "command_failed"
        /\ last'.outcome = "panic" => holder' = "none"
        /\ last'.outcome /= "panic" => (holder' = "query" /\ id' = id)
      ]_vars

\* C19 witness: updating() has panicked on the text "t" with the status 0.
C19_Witness ==
    /\ last.op = "updating"
    /\ last.outcome = "panic"
    /\ reply = [info |-> << 116 >>, status |-> 0]
    /\ holder = "none"

\* C20: for every error text "Stopped at <file>, <line>/<column>: [<code>]
\* <message>", with a space or a newline before '[', QueryFailed::new gives
\* back the text as raw and the file, line, column, code and message it was
\* put together from - for a file path with '/', spaces and parentheses and
\* for a message with ']', '[', ':', '/' or ',' in it too.
C20_QueryFailedFields ==
    (IsSome(failure) /\ IsSome(Unwrap(failure).error)) =>
        LET form == Unwrap(failure).form
            error == Unwrap(Unwrap(failure).error)
        IN  /\ ~error.panic
            /\ error.raw = Unwrap(failure).raw
            /\ error.file = form.file
            /\ error.line = form.line.value
            /\ error.position = form.column.value
            /\ error.code = form.code
            /\ error.message = form.message

\* C20 witness: the error of the file "C:/P (x)/f", line 12, column 87, with
\* a newline before the code "bxerr:B" and the message "a]/[b:,", has been
\* parsed.
C20_Witness ==
    /\ IsSome(failure)
    /\ IsSome(Unwrap(failure).error)
    /\ Unwrap(failure).form =
          [file |-> << 67, 58, 47, 80, 32, 40, 120, 41, 47, 102 >>,
           line |-> Number(<< 49, 50 >>, 12),
           column |-> Number(<< 56, 55 >>, 87),
           separator |-> 10,
           code |-> << 98, 120, 101, 114, 114, 58, 66 >>,
           message |-> << 97, 93, 47, 91, 98, 58, 44 >>]
    /\ Unwrap(Unwrap(failure).error).message = << 97, 93, 47, 91, 98, 58, 44 >>

\* C21: read_string takes the bytes up to and with the first unescaped 0x00
\* from the stream - a 0x00 after an escape marker does not end the string -
\* and returns Ok when the bytes before it are UTF-8, the decoding failure
\* when they are not.
C21_ReadStringStopsAtUnescapedNul ==
    (last.op = "read_string" /\ last.outcome \in { "ok", "utf8" }) =>
        LET taken == events[1].bytes
        IN  /\ UnescapedNuls(taken, 1) = { Len(taken) }
            /\ (last.outcome = "ok") =
                   Utf8Valid(Slice(taken, 0, Len(taken) - 1))

\* C22: when a read or write of the stream fails inside an operation of the
\* connection, client, query or response, the operation returns the I/O
\* failure and makes no further read or write: in the calls an operation made
\* on a stream that breaks, a failed call is the last one and there is one
\* of it, the outcome is the I/O failure exactly when a call failed, and the
\* bytes written are those of the calls before it.
FailedCalls == { i \in DOMAIN events : events[i].failed }
C23_DuplicateStep ==
    (last'.op = "try_clone" /\ (last' /= last \/ handles' /= handles)) =>
        /\ inbound' = inbound
        /\ channel' = channel
        /\ written' = << >>
        /\ events' = << >>
        /\ handles' = IF last'.outcome = "ok"
                      THEN Append(handles, handles[last'.handle])
                      ELSE handles
C23_WriteStep ==
    /\ \/ channel' = channel
       \/ /\ last'.op \in { "send_arg", "authenticate" }
          /\ channel' = channel \o written'
    /\ (last'.op = "send_arg" /\ channel' /= channel) =>
           /\ ServerQueryInfo(channel') = last'.argument
           /\ CanFrame(handles[last'.handle])
C23_ClonesShareStream == [][C23_DuplicateStep /\ C23_WriteStep]_vars

\* Two handles, the second the duplicate of the authenticated first, have
\* set QUERYINFO one after the other: true through the first, then false
\* through the second, and the session has the value false.
C23_Witness ==
    /\ Len(handles) = 2
    /\ handles[2] = "Authenticated"
    /\ last.op = "send_arg"
    /\ last.handle = 2
    /\ channel = AuthString(User, Password, << 66 >>, << 49 >>)
                 \o Argument(SET_QUERYINFO_TRUE)
                 \o Argument(SET_QUERYINFO_FALSE)
    /\ ServerQueryInfo(channel) = SET_QUERYINFO_FALSE

\* C24: the asynchronous escaping encoder emits the byte stream of the
\* synchronous one for every source and every pattern of suspensions, and a
\* poll in which the source is Pending loses no byte taken out of the
\* accumulator and emits none twice: what has been emitted, then what the
\* accumulator holds, then the synchronous encoding of what the source has
\* still to give, is the synchronous encoding of the source.
C24_AsyncEncoderMatchesSync ==
    /\ escaped \o Reverse(accumulator) \o CopyEscaped(inner, << >>, MaxBuf)
           = CopyEscaped(origin, << >>, MaxBuf)
    /\ encDone => escaped = CopyEscaped(origin, << >>, MaxBuf)

\* C25: with_value(None) of an Option<D> behaves the same in the synchronous
\* and the asynchronous API: it writes a bare 0x00, then D's type token and
\* 0x00, and then reads the command's response.
C25_NoneWritesEmptyValue ==
    (last.op \in { "with_value", "async_with_value" }
     /\ ~last.argument[1].some) =>
        /\ last.outcome /= "panic"
        /\ written = << NUL >> \o XqueryType(last.argument[1].value)
                               \o << NUL >>
        /\ events /= << >>
        /\ events[1].op = "read"


\* "admin", 0x00, "af13b20af0e0b0e3517a406c42622d3d", 0x00
EXPECTED_AUTH_STRING ==
    << 97, 100, 109, 105, 110, NUL,
       97, 102, 49, 51, 98, 50, 48, 97, 102, 48, 101, 48, 98, 48, 101,
       51, 53, 49, 55, 97, 52, 48, 54, 99, 52, 50, 54, 50, 50, 100, 51,
       100,
       NUL >>

\* C26: for the greeting "BaseX:19501915960728" and the credentials admin /
\* admin, authenticate writes exactly "admin", 0x00,
\* "af13b20af0e0b0e3517a406c42622d3d", 0x00, in one write and nothing else;
\* the digests the model looks up are the MD5 digests of their messages.
C26_AuthStringForGreeting ==
    (/\ last.op = "authenticate"
     /\ events /= << >>
     /\ events[1].bytes = BASEX_GREETING \o << NUL >>) =>
           /\ \A p \in KnownDigests : Md5Compute(p[1]) = p[2]
           /\ User = << 97, 100, 109, 105, 110 >>
           /\ Password = << 97, 100, 109, 105, 110 >>
           /\ written = EXPECTED_AUTH_STRING
           /\ { i \in DOMAIN events : events[i].op = "write" } = { 2 }
           /\ events[2].bytes = EXPECTED_AUTH_STRING

\* The handshake on that greeting has been accepted.
C26_Witness ==
    /\ last.op = "authenticate"
    /\ last.outcome = "ok"
    /\ events[1].bytes = BASEX_GREETING \o << NUL >>
    /\ written = EXPECTED_AUTH_STRING
    /\ state = "Authenticated"

\* ------------------------------------------------------------------ C27
\* What the left-to-right scan of one delivered chunk is to emit, from the
\* escaping state on: the bytes emitted, the markers dropped and the bytes
\* scanned before the delimiter.
RECURSIVE ScanOf(_, _)
ScanOf(s, escaping) ==
    IF s = << >> THEN [emitted |-> << >>, dropped |-> 0, scanned |-> 0]
    ELSE IF ~escaping /\ Head(s) = NUL
    THEN [emitted |-> << >>, dropped |-> 0, scanned |-> 0]
    ELSE LET marker == ~escaping /\ Head(s) = ESC
             rest == ScanOf(Tail(s), marker)
         IN  [emitted |-> IF marker THEN rest.emitted
                          ELSE << Head(s) >> \o rest.emitted,
              dropped |-> rest.dropped + (IF marker THEN 1 ELSE 0),
              scanned |-> rest.scanned + 1]

\* The chunk a step took from the stream.
Taken == SubSeq(inbound, 1, Len(inbound) - Len(inbound'))

\* A read of the decoder that took bytes from the stream and returned.
C27_ReadReturned ==
    /\ pc \in {"open", "draining"}
    /\ peerClosed' = peerClosed
    /\ inbound' /= inbound
    /\ outcome' /= "panic"

C27_ReadStep ==
    C27_ReadReturned =>
        LET want == ScanOf(Taken, FALSE)
        IN  /\ out' = out \o want.emitted
            /\ Len(out') - Len(out) = want.scanned - want.dropped
            /\ Len(out') - Len(out) <= Len(Taken)

\* C27: one read of a response decoder scans the delivered bytes left to
\* right from the not-escaping state: an unescaped 0xFF is dropped and sets
\* escaping, an unescaped 0x00 ends the scan, every other byte is emitted
\* and clears escaping; the bytes returned are the emitted ones, in order,
\* and their number is the bytes scanned before the delimiter minus the
\* dropped markers: the delimiter, status and info bytes are not among them.
C27_ReadScansDeliveredBytes == [][C27_ReadStep]_vars

\* One read took an escaped 0x00, a byte, the delimiter and what follows it.
C27_Witness ==
    /\ shape = "plain"
    /\ sent.B = << NUL, 1 >>
    /\ out = << NUL, 1 >>
    /\ IsSome(response.info_prefix)
    /\ outcome /= "panic"

\* ------------------------------------------------------------------ C28
\* The payload needs no escaping, so no read before the delimiter can have
\* mistaken a byte, and the response is one the peer sends whole.
C28_WellFormed ==
    /\ Encode(sent.B) = sent.B
    /\ ValidStatus
    /\ ~peerClosed
    /\ pc \in {"open", "draining"}

\* The bytes of the response that follow the payload delimiter.
AfterDelimiter == Drop(Wire(shape, sent), Len(Encode(sent.B)) + 1)

\* The outcome the status byte encodes.
OutcomeOfStatus ==
    IF sent.status = 0 THEN "ok"
    ELSE IF shape = "plain" THEN "command_failed" ELSE "query_failed"

\* The reads so far have taken the payload and its delimiter and no more:
\* the delimiter was the last byte of its read.
C28_DelimiterEndedRead ==
    /\ C28_WellFormed
    /\ inbound = AfterDelimiter
    /\ out = sent.B

\* The next read emits nothing and does not fault, and close() has the
\* outcome of the status byte however the rest is cut into reads.
C28_AfterDelimiterStep ==
    (C28_DelimiterEndedRead /\ peerClosed' = peerClosed) =>
        /\ out' = out
        /\ outcome' /= "panic"
        /\ \A c \in CloseRuns(shape, response, inbound, FALSE) :
               c.outcome = OutcomeOfStatus

\* Plain shape: a read that ends with the info terminator, the status byte
\* still to come, does not fault and emits payload bytes only.
C28_InfoTerminatorStep ==
    (/\ C28_WellFormed
     /\ shape = "plain"
     /\ peerClosed' = peerClosed
     /\ inbound' /= inbound
     /\ inbound' = << sent.status >>) =>
        /\ outcome' /= "panic"
        /\ IsPrefix(out', sent.B)

\* C28: when the read that delivers the payload delimiter ends before the
\* status byte (query shape: the delimiter is the read's last byte; plain
\* shape: the delimiter or the info terminator is), the decoder remembers
\* the delimiter: later reads emit nothing that follows it, nothing faults,
\* and close() yields the outcome the status byte encodes.
C28_DelimiterRemembered ==
    [][C28_AfterDelimiterStep /\ C28_InfoTerminatorStep]_vars

\* ------------------------------------------------------------------ C29
\* C29: whenever close() of a response decoder returns Ok or a typed
\* failure (CommandFailed, QueryFailed), and the peer has not closed the
\* stream, every byte of the response has been taken from the stream, for
\* every split of the response into reads: the next response starts at its
\* first byte.
C29_CloseConsumesResponse ==
    (/\ closeCalled
     /\ pc = "done"
     /\ outcome \in {"ok", "command_failed", "query_failed"}
     /\ ~peerClosed) => inbound = << >>

\* ------------------------------------------------------------------ C30
\* C30: a rejection the server sent in a well-formed response does not take
\* the caller's handle: after Response.close() has returned CommandFailed
\* or QueryFailed, or Query.close() has returned CommandFailed, the caller
\* holds a client or a query through which further commands can be sent.
C30_RejectionKeepsHandle ==
    (/\ last.op \in {"response_close", "query_close"}
     /\ last.outcome \in {"command_failed", "query_failed"}) =>
        holder \in {"client", "query"}

\* ------------------------------------------------------------------ C31
\* The frame of caller c's command, and what the server answers to it.
FrameOf(c) == StoreBytes(PathOf(c), << >>)

\* The bytes are whole frames of the callers, one after the other, and at
\* most the beginning of one more.
RECURSIVE IsFrames(_)
IsFrames(bytes) ==
    \/ bytes = << >>
    \/ \E c \in Callers :
          \/ IsPrefix(bytes, FrameOf(c))
          \/ /\ IsPrefix(FrameOf(c), bytes)
             /\ IsFrames(Drop(bytes, Len(FrameOf(c))))

\* n answers to caller c's command, one after the other.
RECURSIVE OwnAnswers(_, _)
OwnAnswers(c, n) ==
    IF n = 0 THEN << >> ELSE AnswerTo(PathOf(c)) \o OwnAnswers(c, n - 1)

\* The bytes of the callers' frames are mixed on the wire.
Interleaved == ~IsFrames(channel)

\* A caller has read bytes that do not answer its own commands.
Misdelivered ==
    \E c \in Callers : ~IsPrefix(callers[c].got, OwnAnswers(c, MaxCommands))

\* C31: when the two handles are used one command-and-drain at a time, the
\* wire holds whole frames only and every caller reads the answers to its
\* own commands; nothing in the library keeps two callers apart, so without
\* that discipline mixed frames and answers read by the wrong caller are
\* reachable (the witness).
C31_TurnsKeepFramesApart ==
    (callers /= << >> /\ exclusive) => ~Interleaved /\ ~Misdelivered

\* Two callers that do not take turns: the frames are mixed on the wire and
\* a caller has read bytes that answer the other's command.
C31_Witness ==
    /\ callers /= << >>
    /\ ~exclusive
    /\ Interleaved
    /\ Misdelivered

\* ------------------------------------------------------------------ C32
\* The caller's read had an empty buffer (and is not a repetition of the
\* same read, which changes nothing that could be seen).
C32_EmptyRead ==
    /\ last'.op = "read"
    /\ last'.argument = << 0 >>
    /\ last' /= last

C32_EmptyReadStep ==
    C32_EmptyRead =>
        /\ last'.outcome = "ok"
        /\ Deliverable(0) = {0}
        /\ out' = out
        /\ inbound' = inbound
        /\ response' = response
        /\ << pc', closeCalled', outcome', outInfo' >>
             = << pc, closeCalled, outcome, outInfo >>

\* C32: a read with an empty buffer on a connection or on a response
\* decoder returns 0, takes no byte from the stream and leaves the decoder
\* as it was, so that a later close() finds the response as it would have
\* without that read.
C32_EmptyReadChangesNothing == [][C32_EmptyReadStep]_vars

\* The last read had an empty buffer, before the delimiter was found, and
\* close() has then returned the outcome of the response.
C32_Witness ==
    /\ last.op = "read"
    /\ last.argument = << 0 >>
    /\ out = << >>
    /\ sent.B = << >>
    /\ sent.text = Msg
    /\ closeCalled
    /\ pc = "done"
    /\ outcome = "command_failed"
    /\ outInfo = Msg
    /\ inbound = << >>

\* ------------------------------------------------------------------ C33
\* A poll of the asynchronous decoder that was Pending.
C33_PendingPoll == last' /= last

\* A Pending poll leaves the stream and the decoder as they were.
C33_PendingChangesNothing ==
    UNCHANGED << streamVars, shape, sent, response, out, outcome, outInfo >>

C33_WitnessPlain ==
    /\ last.op = "poll_read"
    /\ shape = "plain"
    /\ sent.B = << 1, NUL >>
    /\ sent.text = Msg
    /\ sent.status = 1
    /\ out = sent.B
    /\ closeCalled
    /\ pc = "done"
    /\ outcome = "command_failed"
    /\ outInfo = Msg

\* ------------------------------------------------------------------ C34
\* What a session creation writes: the command text and its 0x00, then the
\* Query code byte, the escaped query text and its 0x00.
C34_SetFrame(flag) ==
    (IF flag THEN SET_QUERYINFO_TRUE ELSE SET_QUERYINFO_FALSE) \o << NUL >>

C34_QueryFrame(text) == << 0 >> \o Encode(text) \o << NUL >>

\* C34: creating a query session sends "SET QUERYINFO true" (with_info) or
\* "SET QUERYINFO false" (without_info) and reads that response to its end,
\* and only then the Query code byte 0x00, the escaped query text and 0x00;
\* the text of the response to that is the session's id.  When either
\* command fails there is no session.  The session's HasInfo tag is the
\* flag that was sent, and info() is called on a session with info only.
C34_SessionCreation ==
    /\ last.op = "new_query" =>
         /\ \E flag \in BOOLEAN :
                written \in { C34_SetFrame(flag),
                              C34_SetFrame(flag) \o
                                  C34_QueryFrame(last.argument[1]) }
         /\ last.outcome = "ok" <=> holder = "query"
         /\ last.outcome /= "ok" => holder = "none" /\ id = None
         /\ holder = "query" =>
              /\ written = C34_SetFrame(hasInfo) \o
                               C34_QueryFrame(last.argument[1])
              /\ reply.status = 0
              /\ id = Some(reply.info)
              /\ inbound = << >>
    /\ last.op = "info" => holder = "query" /\ hasInfo

\* A session with info was created and info() has answered on it.
C34_Witness ==
    /\ last.op = "info"
    /\ last.outcome = "ok"
    /\ hasInfo
    /\ id \in { Some(i) : i \in Ids }

\* A session without info was created.
C34_WitnessWithout ==
    /\ last.op = "new_query"
    /\ last.outcome = "ok"
    /\ ~hasInfo
    /\ written = C34_SetFrame(FALSE) \o C34_QueryFrame(last.argument[1])

\* ------------------------------------------------------------------ C35
\* get_response() has returned CommandFailed or a text decoding failure on
\* a frame the server sent whole.
C35_TypedError ==
    /\ last.op = "get_response"
    /\ last.outcome \in { "command_failed", "utf8" }
    /\ state = "Authenticated"
    /\ ~truncated

\* C35: whenever get_response() returns an error that is not an I/O error
\* (CommandFailed, or the info is not UTF-8), it has taken the whole
\* response frame - the info, its 0x00 and the status byte - from the
\* stream.
C35_TypedErrorConsumesFrame == C35_TypedError => inbound = << >>

\* ------------------------------------------------------------------ C36
\* A read of the decoder took bytes from the stream and returned 0.
C36_ReturnedZero == C27_ReadReturned /\ out' = out

C36_ZeroStep ==
    C36_ReturnedZero => ScanOf(Taken, FALSE).scanned < Len(Taken)

\* C36: a read of a response decoder into a buffer that is not empty
\* returns 0 only when the scan has met the delimiter or the stream
\* delivered no byte: bytes that decode to no payload byte (a lone 0xFF)
\* never make a read return 0, so a loop that reads until 0 - read_to_end,
\* the loop of close() - never stops while the response goes on.
C36_ZeroMeansDelimiterOrEnd == [][C36_ZeroStep]_vars

\* ------------------------------------------------------------------ C37
\* The number of 0x00-terminated arguments in `bytes`, -1 when the bytes
\* end within an argument; a 0x00 behind 0xFF is escaped and ends nothing.
RECURSIVE ArgumentsIn(_, _, _)
ArgumentsIn(bytes, escaping, open) ==
    IF bytes = << >> THEN (IF open THEN -1 ELSE 0)
    ELSE IF escaping THEN ArgumentsIn(Tail(bytes), FALSE, TRUE)
    ELSE IF bytes[1] = ESC THEN ArgumentsIn(Tail(bytes), TRUE, TRUE)
    ELSE IF bytes[1] = NUL
    THEN LET n == ArgumentsIn(Tail(bytes), FALSE, FALSE)
         IN  IF n < 0 THEN n ELSE n + 1
    ELSE ArgumentsIn(Tail(bytes), FALSE, TRUE)

\* The frame of the command sent last is whole.
C37_Whole(frame) ==
    /\ frame /= << >> /\ frame[1] = QueryCommand.Bind
         => ArgumentsIn(Tail(frame), FALSE, FALSE) = 4
    /\ frame /= << >> /\ frame[1] = ClientCommand.Create
         => ArgumentsIn(Tail(frame), FALSE, FALSE) = 2

\* A method is called on the client or on a query.
C37_CommandStarts ==
    /\ holder \in { "client", "query" }
    /\ last' /= last

\* C37: whatever the caller does with the public API - the value returned
\* by bind() or create() dropped without with_value / without_value or
\* with_input / without_input included - the bytes written are whole
\* frames: the Bind code byte is followed by exactly four 0x00-terminated
\* arguments and the Create code byte by exactly two before the next
\* command is written.
C37_WireIsWholeFrames == [][C37_CommandStarts => C37_Whole(written)]_vars

====
